---- MODULE Spec2Model ----
(***************************************************************************)
(* A model of rhizo: the content-addressed chunk store                     *)
(* (rhizo_core/src/chunk_store/store.rs) under several threads and a       *)
(* process crash, and the transaction manager that rhizo_python wraps.     *)
(***************************************************************************)
EXTENDS Integers, Sequences, FiniteSets, TLC

\* ------------------------------------------------------------------------
\* Bounds of the model
\* ------------------------------------------------------------------------
MaxCrashes == 1

\* The threads that call into one ChunkStore
Threads == {1, 2}

\* Byte values and the byte strings handed to put: the empty one, and one
\* that is written in two steps
NumBytes == 2
Inputs == {<< >>, <<1, 2>>}

NoValue == "none"

\* ------------------------------------------------------------------------
\* blake3::hash(data).to_hex(): a digest that is a function of the content
\* alone and that differs for different contents. The bijective base-NumBytes
\* numeral of the byte string stands for the 64 hex characters.
\* ------------------------------------------------------------------------
RECURSIVE blake3_hash(_)
blake3_hash(data) ==
    IF data = << >> THEN 0
    ELSE blake3_hash(SubSeq(data, 1, Len(data) - 1)) * NumBytes + data[Len(data)]

Hashes == {blake3_hash(d) : d \in Inputs}

\* chunk_path.with_file_name("{hash}.{uuid}.tmp")
temp_path(hash, uuid) == <<hash, uuid>>

VARIABLES
    chunks,     \* final chunk paths: hash -> content of the file at hash_to_path(hash)
    temps,      \* "<hash>.<uuid>.tmp" files: temp_path -> content
    pc,         \* per thread: the step of the call it is in
    loc,        \* per thread: the locals of the call it is in
    last,       \* the call that returned last, and what it returned
    crashes,    \* number of process crashes so far
    recording,  \* TRUE when the results of the calls and the history are kept
    putDone,    \* history: the hashes some put call has returned Ok
    deleteCalled, \* history: the hashes delete has been called on
    \* the transaction manager
    txs,        \* tx_id -> TransactionRecord {status, read_snapshot, writes}
    nextTx,     \* the next tx_id begin allocates
    wal,        \* the write-ahead log: Begin, Commit and Abort records in order
    catalog,    \* table -> its TableVersions in commit order
    head,       \* the head map of the branch the transactions run on
    changelog,  \* the ChangelogEntries in the order they were appended
    committing, \* the commit that holds the manager lock, and what it has left to apply
    up,         \* FALSE between a crash and recover_and_apply
    txCrashes,  \* number of crashes of the transaction manager's process
    txLast,     \* the transaction manager call that returned last, and its result
    \* the catalog called on its own
    catLast,    \* the catalog call that returned last, and its result
    \* the branch manager
    branchFiles, \* _branches/<file stem>.json -> the Branch stored in it
    defaultFile, \* _branches/_default.txt: a branch name, or NoName when absent
    brLast,     \* the branch manager call that returned last, and its result
    \* the simulated cluster
    nodeState,  \* per node: key -> value of its algebraic key-value map
    outbox,     \* per node: the updates it broadcasts in the next round
    history,    \* per node: the updates it has committed
    inbox,      \* the updates held back by Delayed(k): receiver, update, rounds left
    partitions, \* the pairs of nodes between which messages are dropped
    condition,  \* the delivery policy of the cluster
    requeues,   \* number of requeue_all_updates calls so far
    phase,      \* "settled" once propagate_all has run after a requeue on a healed network
    \* vector clocks
    clocks,     \* three VectorClocks: name -> (node id -> logical time), entries as stored
    clockLast,  \* the tick call that returned last, the time it found, and how it ended
    \* the chunk store called with hashes as text
    hashFiles,  \* the chunk files: hash text of the path -> the bytes in the file
    hashLast,   \* the call with a hash argument that returned last, and its result
    \* the Merkle trees
    oldTree,    \* the tree built first, with its blob and config: << >> or <<t>>
    newTree,    \* the tree built second, likewise
    merkleLast, \* the Merkle call that returned last, and its result
    build,      \* a build_tree call followed pass by pass: its locals and its result
    \* the Parquet decoder
    pqFile,     \* the Parquet file: its row groups, and whether statistics were written
    pqLast,     \* the Parquet call that returned last, its arguments and its result
    \* a consumer of the changelog
    cursor,     \* the highest tx_id the consumer has received, None before the first
    received,   \* the tx_ids of the entries the consumer has received, in order
    \* update_head called from several threads
    updPc,      \* per thread: the step of the update_head call it is in
    updLoc,     \* per thread: the arguments, the Branch read and the result of its call
    branchTemps \* _branches/<file stem>.json.tmp -> the Branch written to it

chunkVars == <<chunks, temps, pc, loc, last, crashes, recording, putDone, deleteCalled>>

txVars == <<txs, nextTx, wal, catalog, head, changelog, committing, up, txCrashes, txLast>>

catVars == <<catLast>>

branchVars == <<branchFiles, defaultFile, brLast>>

simVars == <<nodeState, outbox, history, inbox, partitions, condition, requeues, phase>>

clockVars == <<clocks, clockLast>>

hashVars == <<hashFiles, hashLast>>

merkleVars == <<oldTree, newTree, merkleLast, build>>

parquetVars == <<pqFile, pqLast>>

consumerVars == <<cursor, received>>

updVars == <<updPc, updLoc, branchTemps>>

\* what the operations of one component leave alone
notChunk == <<txVars, catVars, branchVars, simVars, clockVars, hashVars, merkleVars, parquetVars,
    consumerVars, updVars>>
notTx == <<chunkVars, catVars, branchVars, simVars, clockVars, hashVars, merkleVars, parquetVars,
    consumerVars, updVars>>
notCatalog == <<chunkVars, txs, nextTx, wal, head, changelog, committing, up, txCrashes, txLast,
                branchVars, simVars, clockVars, hashVars, merkleVars, parquetVars, consumerVars,
    updVars>>
notBranch == <<chunkVars, txVars, catVars, simVars, clockVars, hashVars, merkleVars, parquetVars,
    consumerVars, updVars>>
notSim == <<chunkVars, txVars, catVars, branchVars, clockVars, hashVars, merkleVars, parquetVars,
    consumerVars, updVars>>
notClock == <<chunkVars, txVars, catVars, branchVars, simVars, hashVars, merkleVars, parquetVars,
    consumerVars, updVars>>
notHash == <<chunkVars, txVars, catVars, branchVars, simVars, clockVars, merkleVars, parquetVars,
    consumerVars, updVars>>
notMerkle == <<chunkVars, txVars, catVars, branchVars, simVars, clockVars, hashVars, parquetVars,
    consumerVars, updVars>>
notParquet == <<chunkVars, txVars, catVars, branchVars, simVars, clockVars, hashVars, merkleVars,
    consumerVars, updVars>>
notConsumer == <<chunkVars, txVars, catVars, branchVars, simVars, clockVars,
    hashVars, merkleVars, parquetVars, updVars>>
notUpd == <<chunkVars, txVars, catVars, branchVars, simVars, clockVars,
    hashVars, merkleVars, parquetVars, consumerVars>>
\* what update_head on a thread leaves alone, besides the branch files
notBranchThreads == <<chunkVars, txVars, catVars, simVars, clockVars, hashVars,
    merkleVars, parquetVars, consumerVars>>

vars == <<chunkVars, txVars, catVars, branchVars, simVars, clockVars, hashVars, merkleVars,
         parquetVars, consumerVars, updVars>>

Idle == [op |-> "idle"]

\* uuid::Uuid::new_v4(): a name no file and no call in flight carries
UsedUuids ==
    {p[2] : p \in DOMAIN temps} \cup
    {loc[t].temp[2] : t \in {u \in Threads : "temp" \in DOMAIN loc[u]}}

new_v4 == CHOOSE n \in 1..(Cardinality(UsedUuids) + 1) : n \notin UsedUuids

\* Path::exists on a final chunk path
exists(hash) == hash \in DOMAIN chunks

\* removal of a key of a function
Without(f, k) == [x \in DOMAIN f \ {k} |-> f[x]]

\* addition or replacement of a key of a function
With(f, k, v) == [x \in DOMAIN f \cup {k} |-> IF x = k THEN v ELSE f[x]]

\* the history variables move only in the behaviours that keep them
Record(old, new) == IF recording THEN new ELSE old

Return(t, value) ==
    /\ pc' = [pc EXCEPT ![t] = "idle"]
    /\ loc' = [loc EXCEPT ![t] = Idle]
    /\ last' = Record(last, value)
    /\ UNCHANGED recording

\* what put hands back: Ok(hash) or Err(ChunkStoreError::Io)
PutReturn(t, res) ==
    /\ Return(t, [op |-> "put", data |-> loc[t].data, hash |-> loc[t].hash, res |-> res])
    /\ putDone' = IF res = "Ok" THEN Record(putDone, putDone \cup {loc[t].hash}) ELSE putDone

Goto(t, label, locals) ==
    /\ pc' = [pc EXCEPT ![t] = label]
    /\ loc' = [loc EXCEPT ![t] = locals]
    /\ UNCHANGED <<last, recording>>

ChunkInit ==
    /\ chunks = << >>
    /\ temps = << >>
    /\ pc = [t \in Threads |-> "idle"]
    /\ loc = [t \in Threads |-> Idle]
    /\ last = [op |-> "none"]
    /\ crashes = 0
    /\ putDone = {}
    /\ deleteCalled = {}

\* ------------------------------------------------------------------------
\* ChunkStore::put
\* ------------------------------------------------------------------------

\* let hash = blake3::hash(data); if !chunk_path.exists() { ... } Ok(hash)
PutCall(t, data) ==
    /\ pc[t] = "idle"
    /\ LET hash == blake3_hash(data) IN
       IF exists(hash)
       THEN /\ Return(t, [op |-> "put", data |-> data, hash |-> hash, res |-> "Ok"])
            /\ putDone' = Record(putDone, putDone \cup {hash})
       ELSE /\ Goto(t, "put_create",
                    [op |-> "put", data |-> data, hash |-> hash,
                     temp |-> temp_path(hash, new_v4), written |-> 0])
            /\ UNCHANGED putDone
    /\ UNCHANGED <<chunks, temps, crashes, deleteCalled>>

\* Mutant: the file is created at the final chunk path, not at the temp path
PutCreate_InPlace(t) ==
    /\ pc[t] = "put_create"
    /\ chunks' = With(chunks, loc[t].hash, << >>)
    /\ Goto(t, IF loc[t].data = << >> THEN "put_rename" ELSE "put_write", loc[t])
    /\ UNCHANGED <<temps, crashes, putDone, deleteCalled>>

\* fs::write(&temp_path, data): File::create
PutCreate(t) ==
    /\ pc[t] = "put_create"
    /\ temps' = With(temps, loc[t].temp, << >>)
    /\ Goto(t, IF loc[t].data = << >> THEN "put_rename" ELSE "put_write", loc[t])
    /\ UNCHANGED <<chunks, crashes, putDone, deleteCalled>>

\* Mutant: write in place of write_all, the call goes on after one short write
PutWrite_Short(t) ==
    /\ pc[t] = "put_write"
    /\ LET n == loc[t].written + 1
           tp == loc[t].temp IN
       /\ temps' = IF tp \in DOMAIN temps
                   THEN [temps EXCEPT ![tp] = Append(@, loc[t].data[n])]
                   ELSE temps
       /\ Goto(t, "put_rename", [loc[t] EXCEPT !.written = n])
    /\ UNCHANGED <<chunks, crashes, putDone, deleteCalled>>

\* fs::write(&temp_path, data): write_all, one byte at a time, to the file
\* that was created (an unlinked file takes the bytes with it)
PutWrite(t) ==
    /\ pc[t] = "put_write"
    /\ LET n == loc[t].written + 1
           tp == loc[t].temp IN
       /\ temps' = IF tp \in DOMAIN temps
                   THEN [temps EXCEPT ![tp] = Append(@, loc[t].data[n])]
                   ELSE temps
       /\ Goto(t, IF n = Len(loc[t].data) THEN "put_rename" ELSE "put_write",
               [loc[t] EXCEPT !.written = n])
    /\ UNCHANGED <<chunks, crashes, putDone, deleteCalled>>

\* fs::rename(&temp_path, &chunk_path): replaces the target atomically; fails
\* when the temp file is gone, and may fail on a platform that refuses to
\* replace an existing target
PutRename(t) ==
    /\ pc[t] = "put_rename"
    /\ LET tp == loc[t].temp
           hash == loc[t].hash IN
       \/ /\ tp \in DOMAIN temps
          /\ chunks' = With(chunks, hash, temps[tp])
          /\ temps' = Without(temps, tp)
          /\ PutReturn(t, "Ok")
       \/ /\ tp \notin DOMAIN temps \/ exists(hash)
          /\ Goto(t, "put_rename_failed", loc[t])
          /\ UNCHANGED <<chunks, temps, putDone>>
    /\ UNCHANGED <<crashes, deleteCalled>>

\* Err(_) if chunk_path.exists() => ...   Err(e) => ...
PutRenameFailed(t) ==
    /\ pc[t] = "put_rename_failed"
    /\ Goto(t, IF exists(loc[t].hash) THEN "put_remove_beaten" ELSE "put_remove_error", loc[t])
    /\ UNCHANGED <<chunks, temps, crashes, putDone, deleteCalled>>

\* Mutant: every failed rename is taken for a lost race and answered Ok(hash)
PutRemoveTemp_AlwaysOk(t) ==
    /\ pc[t] \in {"put_remove_beaten", "put_remove_error"}
    /\ temps' = IF loc[t].temp \in DOMAIN temps THEN Without(temps, loc[t].temp) ELSE temps
    /\ PutReturn(t, "Ok")
    /\ UNCHANGED <<chunks, crashes, deleteCalled>>

\* Mutant: the temp file of a lost race is left behind
PutRemoveTemp_Leak(t) ==
    /\ pc[t] \in {"put_remove_beaten", "put_remove_error"}
    /\ PutReturn(t, IF pc[t] = "put_remove_beaten" THEN "Ok" ELSE "Io")
    /\ UNCHANGED <<chunks, temps, crashes, deleteCalled>>

\* fs::remove_file(&temp_path) (a failure is only logged), then Ok(hash)
\* when another writer produced the chunk, Err(ChunkStoreError::Io(e)) otherwise
PutRemoveTemp(t) ==
    /\ pc[t] \in {"put_remove_beaten", "put_remove_error"}
    /\ temps' = IF loc[t].temp \in DOMAIN temps THEN Without(temps, loc[t].temp) ELSE temps
    /\ PutReturn(t, IF pc[t] = "put_remove_beaten" THEN "Ok" ELSE "Io")
    /\ UNCHANGED <<chunks, crashes, deleteCalled>>

\* ------------------------------------------------------------------------
\* ChunkStore::get, get_mmap
\* ------------------------------------------------------------------------

\* validate_hash; if !chunk_path.exists() { return Err(NotFound) }
GetCall(t, hash) ==
    /\ pc[t] = "idle"
    /\ IF exists(hash)
       THEN Goto(t, "get_read", [op |-> "get", hash |-> hash])
       ELSE Return(t, [op |-> "get", hash |-> hash, res |-> "NotFound", data |-> NoValue,
                       settled |-> hash \in putDone \ deleteCalled])
    /\ UNCHANGED <<chunks, temps, crashes, putDone, deleteCalled>>

\* Ok(fs::read(&chunk_path)?)
GetRead(t) ==
    /\ pc[t] = "get_read"
    /\ LET hash == loc[t].hash
           settled == hash \in putDone \ deleteCalled IN
       IF exists(hash)
       THEN Return(t, [op |-> "get", hash |-> hash, res |-> "Ok", data |-> chunks[hash],
                       settled |-> settled])
       ELSE Return(t, [op |-> "get", hash |-> hash, res |-> "Io", data |-> NoValue,
                       settled |-> settled])
    /\ UNCHANGED <<chunks, temps, crashes, putDone, deleteCalled>>

\* File::open(&chunk_path), NotFound mapped; Mmap::map(&file) maps the file
\* that was opened
GetMmap(t, hash) ==
    /\ pc[t] = "idle"
    /\ IF exists(hash)
       THEN Return(t, [op |-> "get_mmap", hash |-> hash, res |-> "Ok", data |-> chunks[hash],
                       settled |-> hash \in putDone \ deleteCalled])
       ELSE Return(t, [op |-> "get_mmap", hash |-> hash, res |-> "NotFound", data |-> NoValue,
                       settled |-> hash \in putDone \ deleteCalled])
    /\ UNCHANGED <<chunks, temps, crashes, putDone, deleteCalled>>

\* ------------------------------------------------------------------------
\* ChunkStore::delete
\* ------------------------------------------------------------------------

\* validate_hash; if chunk_path.exists() { ... } Ok(())
DeleteCall(t, hash) ==
    /\ pc[t] = "idle"
    /\ deleteCalled' = Record(deleteCalled, deleteCalled \cup {hash})
    /\ IF exists(hash)
       THEN Goto(t, "delete_remove", [op |-> "delete", hash |-> hash])
       ELSE Return(t, [op |-> "delete", hash |-> hash, res |-> "Ok"])
    /\ UNCHANGED <<chunks, temps, crashes, putDone>>

\* fs::remove_file(&chunk_path)?
DeleteRemove(t) ==
    /\ pc[t] = "delete_remove"
    /\ LET hash == loc[t].hash IN
       IF exists(hash)
       THEN /\ chunks' = Without(chunks, hash)
            /\ Return(t, [op |-> "delete", hash |-> hash, res |-> "Ok"])
       ELSE /\ UNCHANGED chunks
            /\ Return(t, [op |-> "delete", hash |-> hash, res |-> "Io"])
    /\ UNCHANGED <<temps, crashes, putDone, deleteCalled>>

\* ------------------------------------------------------------------------
\* ChunkStore::cleanup_orphaned_temp_files
\* ------------------------------------------------------------------------

\* entry.extension() == "tmp": final chunk paths carry no extension
is_tmp(path) == path \in DOMAIN temps

\* walk_directory(&self.base_path): the files present when the walk runs
CleanupCall(t) ==
    /\ pc[t] = "idle"
    /\ Goto(t, "cleanup_loop",
            [op |-> "cleanup", entries |-> {p \in DOMAIN temps : is_tmp(p)},
             removed |-> 0, failed |-> 0])
    /\ UNCHANGED <<chunks, temps, crashes, putDone, deleteCalled>>

\* for entry in entries { match fs::remove_file(&entry) { ... } }
CleanupRemove(t) ==
    /\ pc[t] = "cleanup_loop"
    /\ \E entry \in loc[t].entries :
        LET rest == loc[t].entries \ {entry} IN
        IF entry \in DOMAIN temps
        THEN /\ temps' = Without(temps, entry)
             /\ Goto(t, "cleanup_loop",
                     [loc[t] EXCEPT !.entries = rest, !.removed = @ + 1])
        ELSE /\ UNCHANGED temps
             /\ Goto(t, "cleanup_loop",
                     [loc[t] EXCEPT !.entries = rest, !.failed = @ + 1])
    /\ UNCHANGED <<chunks, crashes, putDone, deleteCalled>>

\* (removed, failed)
CleanupReturn(t) ==
    /\ pc[t] = "cleanup_loop"
    /\ loc[t].entries = {}
    /\ Return(t, [op |-> "cleanup", removed |-> loc[t].removed, failed |-> loc[t].failed])
    /\ UNCHANGED <<chunks, temps, crashes, putDone, deleteCalled>>

\* ------------------------------------------------------------------------
\* The process dies: every call in flight ends where it is, the files stay
\* ------------------------------------------------------------------------
Crash ==
    /\ crashes < MaxCrashes
    /\ \E t \in Threads : pc[t] # "idle"
    /\ crashes' = crashes + 1
    /\ pc' = [t \in Threads |-> "idle"]
    /\ loc' = [t \in Threads |-> Idle]
    /\ last' = Record(last, [op |-> "none"])
    /\ UNCHANGED <<chunks, temps, recording, putDone, deleteCalled>>

\* ------------------------------------------------------------------------
\* The transaction manager (TransactionManager behind PyTransactionManager):
\* begin, add_write, record_read, commit, abort, recover_and_apply,
\* get_changelog. Its calls are serialized by the manager lock; a commit
\* holds the lock over its steps, and the process may crash between them.
\* ------------------------------------------------------------------------
MaxTx == 2
MaxTxCrashes == 1

TxIds == 1..MaxTx
Tables == {"users", "orders"}

\* the chunk list a transaction writes: the chunks it has put, which are its own
chunks_of(tx) == <<tx>>
None == 0

\* no commit holds the manager lock
NoCommit == [tx |-> None, todo |-> {}, stage |-> "none"]

\* The manager is constructed over a catalog and a branch that already hold
\* version 1 of the table users; the table orders does not exist yet.
TxInit ==
    /\ txs = << >>
    /\ nextTx = 1
    /\ wal = << >>
    /\ catalog = [t \in Tables |->
                    IF t = "users"
                    THEN <<[version |-> 1, chunk_hashes |-> chunks_of(None),
                            parent_version |-> None]>>
                    ELSE << >>]
    /\ head = [t \in {"users"} |-> 1]
    /\ changelog = << >>
    /\ committing = NoCommit
    /\ up = TRUE
    /\ txCrashes = 0
    /\ txLast = [op |-> "none", tx |-> None, res |-> "none", detail |-> None]

\* the manager lock is free and the process is running
Ready == up /\ committing = NoCommit

\* Branch::get_table_version: None when the table is not on the branch
get_table_version(table) == IF table \in DOMAIN head THEN head[table] ELSE None

\* Mutant: update_head that only ever inserts a table, never moves a head
update_head_InsertOnly(h, table, version) ==
    IF table \in DOMAIN h THEN h ELSE With(h, table, version)

\* Mutant: update_head that keeps the head of the one table alone
update_head_ClearOthers(h, table, version) == [x \in {table} |-> version]

\* BranchManager::update_head -> Branch::set_table_version: the head of the
\* table becomes the version, whatever it was
update_head(h, table, version) == With(h, table, version)

\* catalog get_version(table, None): the latest TableVersion, if any
get_version(table) ==
    IF catalog[table] = << >> THEN None ELSE catalog[table][Len(catalog[table])]

latest_version(table) ==
    IF catalog[table] = << >> THEN 0 ELSE catalog[table][Len(catalog[table])].version

WalHas(kind, tx) == \E i \in DOMAIN wal : wal[i] = [kind |-> kind, tx |-> tx]

WalPos(kind, tx) == CHOOSE i \in DOMAIN wal : wal[i] = [kind |-> kind, tx |-> tx]

TxReturn(op, tx, res, detail) ==
    txLast' = [op |-> op, tx |-> tx, res |-> res, detail |-> detail]

\* Begin: allocate the next tx_id, snapshot the branch head, append Begin
Begin ==
    /\ Ready
    /\ nextTx <= MaxTx
    /\ txs' = With(txs, nextTx, [status |-> "Pending", read_snapshot |-> head, writes |-> << >>])
    /\ nextTx' = nextTx + 1
    /\ wal' = Append(wal, [kind |-> "Begin", tx |-> nextTx])
    /\ TxReturn("begin", nextTx, "Ok", None)
    /\ UNCHANGED <<catalog, head, changelog, committing, up, txCrashes>>

\* add_write(tx_id, TableWrite): a later write of the same table replaces
\* the earlier one. The version written is the one after the version read.
AddWrite(tx, table) ==
    /\ Ready
    /\ tx \in DOMAIN txs
    /\ IF txs[tx].status = "Pending"
       THEN LET snap == txs[tx].read_snapshot
                new_version == IF table \in DOMAIN snap THEN snap[table] + 1 ELSE 1
                write == [new_version |-> new_version, chunk_hashes |-> chunks_of(tx)]
            IN /\ txs' = [txs EXCEPT ![tx].writes = With(@, table, write)]
               /\ TxReturn("add_write", tx, "Ok", None)
       ELSE /\ UNCHANGED txs
            /\ TxReturn("add_write", tx, "TransactionNotActive", None)
    /\ UNCHANGED <<nextTx, wal, catalog, head, changelog, committing, up, txCrashes>>

\* record_read(tx_id, table, version): the version read is recorded in the
\* read snapshot. The version handed in is the head the caller read.
RecordRead(tx, table) ==
    /\ Ready
    /\ tx \in DOMAIN txs
    /\ table \in DOMAIN head
    /\ IF txs[tx].status = "Pending"
       THEN /\ txs' = [txs EXCEPT ![tx].read_snapshot = With(@, table, head[table])]
            /\ TxReturn("record_read", tx, "Ok", None)
       ELSE /\ UNCHANGED txs
            /\ TxReturn("record_read", tx, "TransactionNotActive", None)
    /\ UNCHANGED <<nextTx, wal, catalog, head, changelog, committing, up, txCrashes>>

\* the error of commit or abort on a transaction in a terminal state
Terminal(tx) ==
    IF txs[tx].status = "Committed" THEN "AlreadyCommitted" ELSE "AlreadyAborted"

\* the transaction fails: it becomes Aborted, an Abort record is logged and
\* its writes are dropped
Fail(tx) ==
    /\ txs' = [txs EXCEPT ![tx].status = "Aborted", ![tx].writes = << >>]
    /\ wal' = Append(wal, [kind |-> "Abort", tx |-> tx])

\* Mutant: a snapshot check that never reports a moved head
SnapshotConflicts_None(tx) == {}

\* commit step 2: the tables of the read snapshot whose head has moved
SnapshotConflicts(tx) ==
    {t \in DOMAIN txs[tx].read_snapshot : get_table_version(t) # txs[tx].read_snapshot[t]}

\* the transactions whose Commit record follows the Begin record of tx
CommittedSince(tx) ==
    {o \in DOMAIN txs \ {tx} :
        /\ WalHas("Commit", o)
        /\ WalPos("Commit", o) > WalPos("Begin", tx)}

\* Mutant: a detector that never reports a write-write conflict
WriteConflicts_None(tx) == {}

\* commit step 3, the table-level detector: the tables tx writes that a
\* transaction committed since the begin of tx has written
WriteConflicts(tx) ==
    {t \in DOMAIN txs[tx].writes : \E o \in CommittedSince(tx) : t \in DOMAIN txs[o].writes}

\* commit, steps 1 to 3, under the manager lock
CommitValidate(tx) ==
    /\ Ready
    /\ tx \in DOMAIN txs
    /\ IF txs[tx].status # "Pending"
       THEN /\ TxReturn("commit", tx, Terminal(tx), None)
            /\ UNCHANGED <<txs, wal, committing>>
       ELSE IF SnapshotConflicts(tx) # {}
       THEN /\ \E t \in SnapshotConflicts(tx) :
                 TxReturn("commit", tx, "SnapshotConflict",
                          [table |-> t, read_version |-> txs[tx].read_snapshot[t],
                           current_version |-> get_table_version(t)])
            /\ Fail(tx)
            /\ UNCHANGED committing
       ELSE IF WriteConflicts(tx) # {}
       THEN /\ TxReturn("commit", tx, "WriteConflict", WriteConflicts(tx))
            /\ Fail(tx)
            /\ UNCHANGED committing
       ELSE /\ committing' = [tx |-> tx, todo |-> DOMAIN txs[tx].writes, stage |-> "catalog"]
            /\ UNCHANGED <<txs, wal, txLast>>
    /\ UNCHANGED <<nextTx, catalog, head, changelog, up, txCrashes>>

\* commit step 4, first half: append the TableVersion of one write to the
\* catalog, which takes only the version after its latest
CommitCatalog(table) ==
    /\ up /\ committing # NoCommit
    /\ committing.stage = "catalog" /\ table \in committing.todo
    /\ LET tx == committing.tx
           w == txs[tx].writes[table]
           snap == txs[tx].read_snapshot
       IN IF w.new_version = latest_version(table) + 1
          THEN /\ catalog' = [catalog EXCEPT ![table] =
                      Append(@, [version |-> w.new_version,
                                 chunk_hashes |-> w.chunk_hashes,
                                 parent_version |-> IF table \in DOMAIN snap THEN snap[table] ELSE None])]
               /\ committing' = [committing EXCEPT !.stage = table]
               /\ UNCHANGED <<txs, wal, txLast>>
          ELSE /\ TxReturn("commit", tx, "CatalogError", table)
               /\ Fail(tx)
               /\ committing' = NoCommit
               /\ UNCHANGED catalog
    /\ UNCHANGED <<nextTx, head, changelog, up, txCrashes>>

\* commit step 4, second half: advance the branch head of that table
CommitHead ==
    /\ up /\ committing # NoCommit
    /\ committing.stage \in Tables
    /\ LET table == committing.stage
           tx == committing.tx
       IN /\ head' = update_head(head, table, txs[tx].writes[table].new_version)
          /\ committing' = [committing EXCEPT !.stage = "catalog", !.todo = @ \ {table}]
    /\ UNCHANGED <<txs, nextTx, wal, catalog, changelog, up, txCrashes, txLast>>

\* the changes of a ChangelogEntry: {table, old_version, new_version, chunk_hashes}
Changes(tx) ==
    {[table |-> t,
      old_version |-> IF t \in DOMAIN txs[tx].read_snapshot
                      THEN txs[tx].read_snapshot[t] ELSE None,
      new_version |-> txs[tx].writes[t].new_version,
      chunk_hashes |-> txs[tx].writes[t].chunk_hashes] : t \in DOMAIN txs[tx].writes}

\* commit step 5: the Commit record, the changelog entry, the status
CommitFinish ==
    /\ up /\ committing # NoCommit
    /\ committing.stage = "catalog" /\ committing.todo = {}
    /\ LET tx == committing.tx
       IN /\ wal' = Append(wal, [kind |-> "Commit", tx |-> tx])
          /\ changelog' = Append(changelog, [tx_id |-> tx, changes |-> Changes(tx)])
          /\ txs' = [txs EXCEPT ![tx].status = "Committed"]
          /\ TxReturn("commit", tx, "Ok", None)
    /\ committing' = NoCommit
    /\ UNCHANGED <<nextTx, catalog, head, up, txCrashes>>

\* Mutant: abort that does not look at the status of the transaction
Abort_AnyStatus(tx) ==
    /\ Ready
    /\ tx \in DOMAIN txs
    /\ txs' = [txs EXCEPT ![tx].status = "Aborted", ![tx].writes = << >>]
    /\ wal' = Append(wal, [kind |-> "Abort", tx |-> tx])
    /\ TxReturn("abort", tx, "Ok", None)
    /\ UNCHANGED <<nextTx, catalog, head, changelog, committing, up, txCrashes>>

\* abort(tx_id, reason): Aborted, an Abort record, the writes dropped
Abort(tx) ==
    /\ Ready
    /\ tx \in DOMAIN txs
    /\ IF txs[tx].status = "Pending"
       THEN /\ txs' = [txs EXCEPT ![tx].status = "Aborted", ![tx].writes = << >>]
            /\ wal' = Append(wal, [kind |-> "Abort", tx |-> tx])
            /\ TxReturn("abort", tx, "Ok", None)
       ELSE /\ TxReturn("abort", tx, Terminal(tx), None)
            /\ UNCHANGED <<txs, wal>>
    /\ UNCHANGED <<nextTx, catalog, head, changelog, committing, up, txCrashes>>

\* the process dies; a commit in flight ends where it is, and what was
\* written to the WAL, the catalog, the branch file and the changelog stays
TxCrash ==
    /\ up
    /\ txCrashes < MaxTxCrashes
    /\ txs # << >>
    /\ up' = FALSE
    /\ committing' = NoCommit
    /\ txCrashes' = txCrashes + 1
    /\ UNCHANGED <<txs, nextTx, wal, catalog, head, changelog, txLast>>

\* the transactions of the WAL that have a Begin and no Commit or Abort
RolledBack == {tx \in DOMAIN txs : ~WalHas("Commit", tx) /\ ~WalHas("Abort", tx)}

RECURSIVE AppendAborts(_, _)
AppendAborts(log, ids) ==
    IF ids = {} THEN log
    ELSE LET tx == CHOOSE x \in ids : \A y \in ids : x <= y
         IN AppendAborts(Append(log, [kind |-> "Abort", tx |-> tx]), ids \ {tx})

\* recover_and_apply: read the WAL forward; a transaction with no terminal
\* record is rolled back, which marks it Aborted
RecoverAndApply ==
    /\ ~up
    /\ up' = TRUE
    /\ txs' = [tx \in DOMAIN txs |->
                  IF tx \in RolledBack THEN [txs[tx] EXCEPT !.status = "Aborted"] ELSE txs[tx]]
    /\ wal' = AppendAborts(wal, RolledBack)
    /\ TxReturn("recover_and_apply", None, "Ok", RolledBack)
    /\ UNCHANGED <<nextTx, catalog, head, changelog, committing, txCrashes>>

\* ascending tx_id
RECURSIVE SortByTxId(_)
SortByTxId(entries) ==
    IF entries = {} THEN << >>
    ELSE LET e == CHOOSE x \in entries : \A y \in entries : x.tx_id <= y.tx_id
         IN <<e>> \o SortByTxId(entries \ {e})

\* get_changelog(since_tx_id): the entries after since_tx_id, ascending tx_id
get_changelog(since_tx_id) ==
    SortByTxId({changelog[i] : i \in {j \in DOMAIN changelog : changelog[j].tx_id > since_tx_id}})

\* A consumer that follows the changelog: it keeps the highest tx_id it has
\* received and asks for the entries after it.
ConsumerInit ==
    /\ cursor = None
    /\ received = << >>

\* the highest tx_id of a list of entries, or the one held when there is none
highest_tx_id(entries, held) ==
    IF entries = << >> THEN held
    ELSE LET ids == {entries[i].tx_id : i \in DOMAIN entries} \cup {held}
         IN CHOOSE x \in ids : \A y \in ids : x >= y

\* get_changelog(since_tx_id = the highest tx_id received so far), called
\* outside a commit; the consumer keeps what it is handed
Poll ==
    /\ Ready
    /\ LET entries == get_changelog(cursor)
       IN /\ entries # << >>
          /\ received' = received \o [i \in DOMAIN entries |-> entries[i].tx_id]
          /\ cursor' = highest_tx_id(entries, cursor)

\* ------------------------------------------------------------------------
\* The catalog (FileCatalog behind PyCatalog) called on its own: commit,
\* get_version, list_versions
\* ------------------------------------------------------------------------
MaxVersion == 3

CatalogInit == catLast = [op |-> "none", table |-> "none", res |-> "none", detail |-> None]

\* list_versions(table): the versions of the table, in the order of their files
list_versions(table) == [i \in DOMAIN catalog[table] |-> catalog[table][i].version]

\* Mutant: a commit that takes any version
InvalidVersion_Never(table, version) == FALSE

\* the check of commit: version == current_latest + 1
InvalidVersion(table, version) == version # latest_version(table) + 1

\* commit(TableVersion): Ok(version), or InvalidVersion{expected, got}
CatalogCommit(table, version) ==
    /\ Ready
    /\ IF InvalidVersion(table, version)
       THEN /\ catLast' = [op |-> "commit", table |-> table, res |-> "InvalidVersion",
                           detail |-> [expected |-> latest_version(table) + 1, got |-> version]]
            /\ UNCHANGED catalog
       ELSE /\ catalog' = [catalog EXCEPT ![table] =
                   Append(@, [version |-> version,
                              chunk_hashes |-> chunks_of(version),
                              parent_version |-> latest_version(table)])]
            /\ catLast' = [op |-> "commit", table |-> table, res |-> "Ok", detail |-> version]

\* ------------------------------------------------------------------------
\* The branch manager (udr_core/src/branch/manager.rs, branch.rs): one JSON
\* file per branch, and the file that names the default branch. A branch
\* name is the sequence of its characters.
\* ------------------------------------------------------------------------
MaxHead == 2

DEFAULT_BRANCH == <<"m", "a", "i", "n">>

\* Option<String>::None where a branch name may stand
NoName == <<"None">>

\* the names handed to the calls: main, a plain name, a name with a slash,
\* the name that slash is written as on disk, and the empty name
BranchNames ==
    {DEFAULT_BRANCH, <<"d", "e", "v">>, <<"a", "/", "b">>, <<"a", "_", "_", "b">>, << >>}

\* c.is_alphanumeric() || c == '-' || c == '_' || c == '/'
ValidChars == {"m", "a", "i", "n", "d", "e", "v", "b", "-", "_", "/"}

\* name.replace("/", "__")
RECURSIVE replace_slash(_)
replace_slash(name) ==
    IF name = << >> THEN << >>
    ELSE (IF Head(name) = "/" THEN <<"_", "_">> ELSE <<Head(name)>>) \o replace_slash(Tail(name))

\* filename.replace("__", "/")
RECURSIVE replace_underscores(_)
replace_underscores(stem) ==
    IF Len(stem) >= 2 /\ stem[1] = "_" /\ stem[2] = "_"
    THEN <<"/">> \o replace_underscores(SubSeq(stem, 3, Len(stem)))
    ELSE IF stem = << >> THEN << >>
    ELSE <<Head(stem)>> \o replace_underscores(Tail(stem))

\* the stem of the file "<safe_name>.json" of a branch
branch_path(name) == replace_slash(name)

branch_exists(name) == branch_path(name) \in DOMAIN branchFiles

\* Ok(()) or InvalidBranchName
validate_branch_name(name) ==
    /\ name # << >>
    /\ Head(name) # "_"
    /\ \A i \in DOMAIN name : name[i] \in ValidChars
    /\ \A i \in 1..Len(name) - 1 : ~(name[i] = "/" /\ name[i + 1] = "/")

\* Branch::new(name, head)
new_branch(name, h) == [name |-> name, head |-> h, parent_branch |-> NoName]

\* Mutant: a new branch that starts with an empty head map
from_branch_EmptyHead(name, parent) ==
    [name |-> name, head |-> << >>, parent_branch |-> parent.name]

\* Branch::from_branch(name, parent): the head map is cloned
from_branch(name, parent) ==
    [name |-> name, head |-> parent.head, parent_branch |-> parent.name]

\* save_branch: the file is the one of the name stored in the branch
save_branch(files, branch) == With(files, branch_path(branch.name), branch)

\* get(name): the branch read from the file of the name
get(name) == branchFiles[branch_path(name)]

\* list(): the names the file stems decode to
list == {replace_underscores(stem) : stem \in DOMAIN branchFiles}

\* get_default(): NoName when _default.txt is absent
get_default == defaultFile

\* the tables in the order sort() puts them
TableOrder == <<"orders", "users">>

\* the tables of a set, sorted
Sorted(tables) == SelectSeq(TableOrder, LAMBDA t : t \in tables)

\* Mutant: a diff without the second loop, over the tables of the target
compute_SourceOnly(source, target) ==
    LET both == DOMAIN source.head \cap DOMAIN target.head
        unchanged == Sorted({t \in both : source.head[t] = target.head[t]})
        differ == Sorted({t \in both : source.head[t] # target.head[t]})
        only_source == Sorted(DOMAIN source.head \ DOMAIN target.head)
        modified == [i \in DOMAIN differ |->
                        <<differ[i], source.head[differ[i]], target.head[differ[i]]>>]
    IN [source_branch |-> source.name,
        target_branch |-> target.name,
        unchanged |-> unchanged,
        modified |-> modified,
        added_in_source |-> [i \in DOMAIN only_source |->
                                <<only_source[i], source.head[only_source[i]]>>],
        added_in_target |-> << >>,
        has_conflicts |-> modified # << >>]

\* BranchDiff::compute(source, target)
compute(source, target) ==
    LET both == DOMAIN source.head \cap DOMAIN target.head
        unchanged == Sorted({t \in both : source.head[t] = target.head[t]})
        differ == Sorted({t \in both : source.head[t] # target.head[t]})
        only_source == Sorted(DOMAIN source.head \ DOMAIN target.head)
        only_target == Sorted(DOMAIN target.head \ DOMAIN source.head)
        modified == [i \in DOMAIN differ |->
                        <<differ[i], source.head[differ[i]], target.head[differ[i]]>>]
    IN [source_branch |-> source.name,
        target_branch |-> target.name,
        unchanged |-> unchanged,
        modified |-> modified,
        added_in_source |-> [i \in DOMAIN only_source |->
                                <<only_source[i], source.head[only_source[i]]>>],
        added_in_target |-> [i \in DOMAIN only_target |->
                                <<only_target[i], target.head[only_target[i]]>>],
        has_conflicts |-> modified # << >>]

\* BranchDiff::conflicting_tables
conflicting_tables(d) == [i \in DOMAIN d.modified |-> d.modified[i][1]]

BranchReturn(op, res, detail) == brLast' = [op |-> op, res |-> res, detail |-> detail]

\* BranchManager::new on an empty directory: main with an empty head map,
\* marked default
BranchInit ==
    /\ branchFiles = [p \in {branch_path(DEFAULT_BRANCH)} |-> new_branch(DEFAULT_BRANCH, << >>)]
    /\ defaultFile = DEFAULT_BRANCH
    /\ brLast = [op |-> "none", res |-> "none", detail |-> None]

\* create(name, from_branch, description)
BranchCreate(name, source_name) ==
    IF ~validate_branch_name(name)
    THEN BranchReturn("create", "InvalidBranchName", name) /\ UNCHANGED <<branchFiles, defaultFile>>
    ELSE IF branch_exists(name)
    THEN BranchReturn("create", "BranchAlreadyExists", name) /\ UNCHANGED <<branchFiles, defaultFile>>
    ELSE LET from_name == IF source_name # NoName THEN source_name
                          ELSE IF get_default # NoName THEN get_default ELSE DEFAULT_BRANCH
         IN IF ~branch_exists(from_name)
            THEN /\ BranchReturn("create", "BranchNotFound", from_name)
                 /\ UNCHANGED <<branchFiles, defaultFile>>
            ELSE LET branch == from_branch(name, get(from_name)) IN
                 /\ branchFiles' = save_branch(branchFiles, branch)
                 /\ BranchReturn("create", "Ok", name)
                 /\ UNCHANGED defaultFile

\* Mutant: a delete that refuses no branch
IsDefault_Never(name) == FALSE

\* delete: if let Some(default) = get_default() { if default == name ...
IsDefault(name) == get_default # NoName /\ get_default = name

\* delete(name)
BranchDelete(name) ==
    /\ IF IsDefault(name)
       THEN BranchReturn("delete", "CannotDeleteDefault", name) /\ UNCHANGED branchFiles
       ELSE IF ~branch_exists(name)
       THEN BranchReturn("delete", "BranchNotFound", name) /\ UNCHANGED branchFiles
       ELSE /\ branchFiles' = Without(branchFiles, branch_path(name))
            /\ BranchReturn("delete", "Ok", name)
    /\ UNCHANGED defaultFile

\* update_head(branch_name, table_name, version)
BranchUpdateHead(branch_name, table_name, version) ==
    /\ IF ~branch_exists(branch_name)
       THEN BranchReturn("update_head", "BranchNotFound", branch_name) /\ UNCHANGED branchFiles
       ELSE LET branch == get(branch_name) IN
            /\ branchFiles' = save_branch(branchFiles,
                    [branch EXCEPT !.head = update_head(@, table_name, version)])
            /\ BranchReturn("update_head", "Ok", branch_name)
    /\ UNCHANGED defaultFile

\* update_head followed step by step on several threads. BranchManager holds
\* its base path and no lock, and its methods take &self, so the calls of two
\* threads interleave at the file operations: the read of get, and the
\* fs::write and fs::rename of save_branch, whose temp file is named after
\* the branch alone.
NoUpdate ==
    [branch_name |-> NoName, table_name |-> "none", version |-> None, branch |-> << >>,
     res |-> "none"]

UpdInit ==
    /\ updPc = [t \in Threads |-> "idle"]
    /\ updLoc = [t \in Threads |-> NoUpdate]
    /\ branchTemps = << >>

\* update_head(branch_name, table_name, version) is called
UpdateHeadCall(t, branch_name, table_name, version) ==
    /\ updPc[t] = "idle"
    /\ updPc' = [updPc EXCEPT ![t] = "get"]
    /\ updLoc' = [updLoc EXCEPT ![t] = [NoUpdate EXCEPT !.branch_name = branch_name,
                                                        !.table_name = table_name,
                                                        !.version = version]]
    /\ UNCHANGED <<branchFiles, defaultFile, brLast, branchTemps>>

\* let mut branch = self.get(branch_name)?; branch.set_table_version(..)
UpdateHeadGet(t) ==
    /\ updPc[t] = "get"
    /\ IF ~branch_exists(updLoc[t].branch_name)
       THEN /\ updPc' = [updPc EXCEPT ![t] = "done"]
            /\ updLoc' = [updLoc EXCEPT ![t].res = "BranchNotFound"]
       ELSE /\ updPc' = [updPc EXCEPT ![t] = "write"]
            /\ updLoc' = [updLoc EXCEPT ![t].branch =
                            <<[get(updLoc[t].branch_name) EXCEPT !.head =
                                 update_head(@, updLoc[t].table_name, updLoc[t].version)]>>]
    /\ UNCHANGED <<branchFiles, defaultFile, brLast, branchTemps>>

\* save_branch: fs::write(&temp_path, &json)
UpdateHeadWrite(t) ==
    /\ updPc[t] = "write"
    /\ branchTemps' = With(branchTemps, branch_path(updLoc[t].branch[1].name),
                           updLoc[t].branch[1])
    /\ updPc' = [updPc EXCEPT ![t] = "rename"]
    /\ UNCHANGED <<branchFiles, defaultFile, brLast, updLoc>>

\* save_branch: fs::rename(&temp_path, &path)?, which fails when the temp
\* file is no longer there; then Ok(())
UpdateHeadRename(t) ==
    /\ updPc[t] = "rename"
    /\ LET stem == branch_path(updLoc[t].branch[1].name)
       IN IF stem \in DOMAIN branchTemps
          THEN /\ branchFiles' = With(branchFiles, stem, branchTemps[stem])
               /\ branchTemps' = Without(branchTemps, stem)
               /\ updLoc' = [updLoc EXCEPT ![t].res = "Ok"]
          ELSE /\ updLoc' = [updLoc EXCEPT ![t].res = "Io"]
               /\ UNCHANGED <<branchFiles, branchTemps>>
    /\ updPc' = [updPc EXCEPT ![t] = "done"]
    /\ UNCHANGED <<defaultFile, brLast>>

\* diff(source, target) of two branches that exist
diff(source, target) == compute(get(source), get(target))

\* can_fast_forward(source, target) of two branches that exist:
\* Ok(!diff.has_conflicts)
can_fast_forward(source, target) == ~diff(source, target).has_conflicts

\* Mutant: a merge that makes the target head a copy of the source head
apply_heads_Replace(target_head, source_head) == source_head

\* for (table, version) in &source_branch.head { target.set_table_version }
apply_heads(target_head, source_head) ==
    [t \in DOMAIN target_head \cup DOMAIN source_head |->
        IF t \in DOMAIN source_head THEN source_head[t] ELSE target_head[t]]

\* Mutant: a merge that never finds a conflict
MergeBlocked_Never(d) == FALSE

\* merge_fast_forward: if diff.has_conflicts { return Err(MergeConflict) }
MergeBlocked(d) == d.has_conflicts

\* what merge_fast_forward hands back, with the arguments of the call
MergeReturn(source, into, res, tables) ==
    BranchReturn("merge_fast_forward", res, [source |-> source, into |-> into, tables |-> tables])

\* merge_fast_forward(source, into)
MergeFastForward(source, into) ==
    /\ IF ~branch_exists(source)
       THEN MergeReturn(source, into, "BranchNotFound", << >>) /\ UNCHANGED branchFiles
       ELSE IF ~branch_exists(into)
       THEN MergeReturn(source, into, "BranchNotFound", << >>) /\ UNCHANGED branchFiles
       ELSE LET d == diff(source, into) IN
            IF MergeBlocked(d)
            THEN /\ MergeReturn(source, into, "MergeConflict", conflicting_tables(d))
                 /\ UNCHANGED branchFiles
            ELSE LET target_branch == get(into) IN
                 /\ branchFiles' = save_branch(branchFiles,
                        [target_branch EXCEPT !.head = apply_heads(@, get(source).head)])
                 /\ MergeReturn(source, into, "Ok", << >>)
    /\ UNCHANGED defaultFile

\* set_default(name)
BranchSetDefault(name) ==
    /\ IF ~branch_exists(name)
       THEN BranchReturn("set_default", "BranchNotFound", name) /\ UNCHANGED defaultFile
       ELSE defaultFile' = name /\ BranchReturn("set_default", "Ok", None)
    /\ UNCHANGED branchFiles

\* ------------------------------------------------------------------------
\* The simulated cluster (SimulatedCluster behind PySimulatedCluster): N
\* nodes, each with a key-value map, an outbox and the history of its own
\* commits; AbelianAdd operations, whose merge is the sum
\* ------------------------------------------------------------------------
NumNodes == 3
MaxCommits == 2
MaxDelay == 1
MaxRounds == 3
MaxRequeues == 1

Nodes == 1..NumNodes

Keys == {"counter", "hits"}

Deltas == {1, 2}

\* NetworkCondition: Perfect, Reordered, Delayed(MaxDelay); Partitioned is
\* what a pair in partitions has
Conditions == {"Perfect", "Reordered", "Delayed"}

SimInit ==
    /\ nodeState = [n \in Nodes |-> << >>]
    /\ outbox = [n \in Nodes |-> {}]
    /\ history = [n \in Nodes |-> {}]
    /\ inbox = {}
    /\ partitions = {}
    /\ condition = "Perfect"
    /\ requeues = 0
    /\ phase = "open"

\* AlgebraicMerger::merge(AbelianAdd, a, b): the numeric sum
merge_add(a, b) == a + b

\* one received update merged into the map of a node
apply_update(state, u) ==
    IF u.key \in DOMAIN state
    THEN [state EXCEPT ![u.key] = merge_add(@, u.delta)]
    ELSE With(state, u.key, u.delta)

\* the updates of a set merged into the map of a node, in any order (the
\* sum does not depend on it, which is what Reordered permutes)
RECURSIVE apply_all(_, _)
apply_all(state, updates) ==
    IF updates = {} THEN state
    ELSE LET u == CHOOSE x \in updates : TRUE
         IN apply_all(apply_update(state, u), updates \ {u})

\* messages between the two nodes are dropped
Partitioned(a, b) == {a, b} \in partitions

\* propagate_round on a cluster c = [state, outbox, inbox]: every outbox is
\* broadcast to every other node and emptied, a message across a partition
\* is dropped, Delayed holds a message for MaxDelay rounds, and every update
\* received is merged into the state of the receiver
propagate_round(c) ==
    LET sent == {[to |-> m, upd |-> u, from |-> n] :
                    n \in Nodes, m \in Nodes, u \in UNION {c.outbox[x] : x \in Nodes}}
        passing == {x \in sent : /\ x.to # x.from
                                 /\ x.upd \in c.outbox[x.from]
                                 /\ ~Partitioned(x.from, x.to)}
        due == {x \in c.inbox : x.wait = 1}
        now == IF condition = "Delayed"
               THEN {[to |-> x.to, upd |-> x.upd] : x \in due}
               ELSE {[to |-> x.to, upd |-> x.upd] : x \in passing}
        held == IF condition = "Delayed"
                THEN {[to |-> x.to, upd |-> x.upd, wait |-> MaxDelay] : x \in passing}
                ELSE {}
    IN [state |-> [m \in Nodes |->
                     apply_all(c.state[m], {x.upd : x \in {y \in now : y.to = m}})],
        outbox |-> [n \in Nodes |-> {}],
        inbox |-> {[x EXCEPT !.wait = @ - 1] : x \in c.inbox \ due} \cup held]

\* nothing is left to deliver
Quiet(c) == c.inbox = {} /\ \A n \in Nodes : c.outbox[n] = {}

\* propagate_all: rounds until nothing is left to deliver, at most max_rounds
RECURSIVE propagate_all(_, _)
propagate_all(c, rounds) ==
    IF rounds = 0 \/ Quiet(c) THEN c
    ELSE propagate_all(propagate_round(c), rounds - 1)

Cluster == [state |-> nodeState, outbox |-> outbox, inbox |-> inbox]

SetCluster(c) ==
    /\ nodeState' = c.state
    /\ outbox' = c.outbox
    /\ inbox' = c.inbox

\* the updates committed on any node
Committed_updates == UNION {history[n] : n \in Nodes}

\* SimulatedCluster::with_config before anything is committed
WithConfig(c) ==
    /\ Committed_updates = {} /\ partitions = {}
    /\ condition' = c
    /\ UNCHANGED <<nodeState, outbox, history, inbox, partitions, requeues, phase>>

\* commit_on_node(node, tx) of a transaction with one AbelianAdd operation:
\* the clock of the node is ticked, the operation is applied to the map of
\* the node, and the update goes to its outbox and its history
CommitOnNode(n, key, delta) ==
    /\ Cardinality(Committed_updates) < MaxCommits
    /\ LET u == [origin |-> n, clock |-> Cardinality(history[n]) + 1,
                 key |-> key, delta |-> delta]
       IN /\ nodeState' = [nodeState EXCEPT ![n] = apply_update(@, u)]
          /\ outbox' = [outbox EXCEPT ![n] = @ \cup {u}]
          /\ history' = [history EXCEPT ![n] = @ \cup {u}]
    /\ phase' = "open"
    /\ UNCHANGED <<inbox, partitions, condition, requeues>>

\* partition(node_a, node_b)
Partition(a, b) ==
    /\ partitions' = partitions \cup {{a, b}}
    /\ phase' = "open"
    /\ UNCHANGED <<nodeState, outbox, history, inbox, condition, requeues>>

\* heal_partitions()
HealPartitions ==
    /\ partitions' = {}
    /\ UNCHANGED <<nodeState, outbox, history, inbox, condition, requeues, phase>>

\* requeue_all_updates(): the history of every node goes back to its outbox
RequeueAllUpdates ==
    /\ requeues < MaxRequeues
    /\ requeues' = requeues + 1
    /\ outbox' = [n \in Nodes |-> outbox[n] \cup history[n]]
    /\ phase' = IF partitions = {} THEN "requeued" ELSE "open"
    /\ UNCHANGED <<nodeState, history, inbox, partitions, condition>>

\* propagate_round()
PropagateRound ==
    /\ SetCluster(propagate_round(Cluster))
    /\ UNCHANGED <<history, partitions, condition, requeues, phase>>

\* propagate_all()
PropagateAll ==
    /\ SetCluster(propagate_all(Cluster, MaxRounds))
    /\ phase' = IF phase \in {"requeued", "settled"} /\ partitions = {}
                THEN "settled" ELSE phase
    /\ UNCHANGED <<history, partitions, condition, requeues>>

\* get_node_state(node, key): None when the node has no value for the key
get_node_state(n, key) == IF key \in DOMAIN nodeState[n] THEN nodeState[n][key] ELSE None

\* all_keys(): the keys some node has
all_keys == UNION {DOMAIN nodeState[n] : n \in Nodes}

\* verify_convergence(): every node has the same value for every key
verify_convergence ==
    \A key \in all_keys : \A n \in Nodes, m \in Nodes :
        get_node_state(n, key) = get_node_state(m, key)

\* ------------------------------------------------------------------------
\* Vector clocks (rhizo_core/src/distributed/vector_clock.rs): a HashMap
\* from node id to u64; a clock is the function of the entries it stores,
\* and == is the equality of the maps (derived PartialEq)
\* ------------------------------------------------------------------------
MaxTime == 2

\* the width of a logical time, in bits: u64 scaled down
TimeBits == 2

\* u64::MAX at that width
U64_MAX == 2 ^ TimeBits - 1

NodeIds == {"a", "b"}

ClockNames == {"A", "B", "C"}

\* VectorClock::new(): no entries
new_clock == [n \in {} |-> 0]

ClockInit ==
    /\ clocks = [c \in ClockNames |-> new_clock]
    /\ clockLast = [op |-> "none", clock |-> "none", node |-> "none", found |-> 0, res |-> "none"]

\* get(node_id): 0 when the node has no entry
clock_get(clock, node_id) == IF node_id \in DOMAIN clock THEN clock[node_id] ELSE 0

\* set(node_id, time)
clock_set(clock, node_id, time) == With(clock, node_id, time)

\* tick(node_id): *entry(node_id).or_insert(0) += 1
\* the sum as a build without overflow checks computes it
tick(clock, node_id) == With(clock, node_id, (clock_get(clock, node_id) + 1) % (U64_MAX + 1))

\* the larger of two times
LargerOf(x, y) == IF x >= y THEN x ELSE y

\* Mutant: a merge that raises the entries the clock has and adds none
merge_OwnEntries(self, other) ==
    [n \in DOMAIN self |-> LargerOf(self[n], clock_get(other, n))]

\* merge(other): for every entry of other, entry(node).or_insert(0) becomes
\* the larger of itself and the time of other
merge(self, other) ==
    [n \in DOMAIN self \cup DOMAIN other |->
        IF n \in DOMAIN other THEN LargerOf(clock_get(self, n), other[n]) ELSE self[n]]

\* max(a, b): a clone of a, with b merged into it
max(a, b) == merge(a, b)

\* Mutant: a comparison over the entries of the first clock alone
partial_cmp_OwnEntries(self, other) ==
    LET less_than == \E n \in DOMAIN self : clock_get(self, n) < clock_get(other, n)
        greater_than == \E n \in DOMAIN self : clock_get(self, n) > clock_get(other, n)
    IN IF less_than /\ greater_than THEN "None"
       ELSE IF less_than THEN "Less"
       ELSE IF greater_than THEN "Greater"
       ELSE "Equal"

\* PartialOrd::partial_cmp: over the node ids of both clocks, a missing
\* entry read as 0
partial_cmp(self, other) ==
    LET all_nodes == DOMAIN self \cup DOMAIN other
        less_than == \E n \in all_nodes : clock_get(self, n) < clock_get(other, n)
        greater_than == \E n \in all_nodes : clock_get(self, n) > clock_get(other, n)
    IN IF less_than /\ greater_than THEN "None"
       ELSE IF less_than THEN "Less"
       ELSE IF greater_than THEN "Greater"
       ELSE "Equal"

happened_before(self, other) == partial_cmp(self, other) = "Less"

concurrent_with(self, other) == partial_cmp(self, other) = "None"

\* compare(other): the CausalOrder
compare(self, other) ==
    CASE partial_cmp(self, other) = "Less" -> "Before"
      [] partial_cmp(self, other) = "Greater" -> "After"
      [] partial_cmp(self, other) = "Equal" -> "Equal"
      [] partial_cmp(self, other) = "None" -> "Concurrent"

\* self == other, the derived PartialEq: the two HashMaps store the same
\* node ids with the same times
clock_eq(self, other) ==
    /\ DOMAIN self = DOMAIN other
    /\ \A n \in DOMAIN self : self[n] = other[n]

\* is_empty(): no entry, or every entry 0
is_empty(clock) == DOMAIN clock = {} \/ \A n \in DOMAIN clock : clock[n] = 0

\* clock.set(node_id, time) on one of the clocks
ClockSet(c, node_id, time) ==
    clocks' = [clocks EXCEPT ![c] = clock_set(@, node_id, time)]

\* clock.tick(node_id) on a clock whose time may be anything a u64 holds:
\* at u64::MAX the += 1 panics in a build with overflow checks, after
\* or_insert has made the entry, and wraps to 0 in a build without them
ClockTickCall(c, node_id) ==
    LET found == clock_get(clocks[c], node_id)
        returned(res) == clockLast' = [op |-> "tick", clock |-> c, node |-> node_id,
                                       found |-> found, res |-> res]
    IN \/ /\ found < U64_MAX
          /\ clocks' = [clocks EXCEPT ![c] = tick(@, node_id)]
          /\ returned("Ok")
       \/ /\ found = U64_MAX
          /\ clocks' = [clocks EXCEPT ![c] = tick(@, node_id)]
          /\ returned("Ok")
       \/ /\ found = U64_MAX
          /\ UNCHANGED clocks
          /\ returned("panic")

\* clock.tick(node_id) on one of the clocks
ClockTick(c, node_id) ==
    /\ clock_get(clocks[c], node_id) < MaxTime
    /\ clocks' = [clocks EXCEPT ![c] = tick(@, node_id)]

\* clock.merge(other) on one of the clocks
ClockMerge(c, other) ==
    clocks' = [clocks EXCEPT ![c] = merge(@, clocks[other])]

\* a message received: clock.merge(other) followed by clock.tick(node_id),
\* the tick with the outcomes of ClockTickCall at u64::MAX
ClockReceive(c, other, node_id) ==
    LET merged == merge(clocks[c], clocks[other])
        found == clock_get(merged, node_id)
        returned(res) == clockLast' = [op |-> "receive", clock |-> c, node |-> node_id,
                                       found |-> found, res |-> res]
    IN /\ c # other
       /\ \/ /\ found < U64_MAX
             /\ clocks' = [clocks EXCEPT ![c] = tick(merged, node_id)]
             /\ returned("Ok")
          \/ /\ found = U64_MAX
             /\ clocks' = [clocks EXCEPT ![c] = tick(merged, node_id)]
             /\ returned("Ok")
          \/ /\ found = U64_MAX
             /\ clocks' = [clocks EXCEPT ![c] = merged]
             /\ returned("panic")

\* ------------------------------------------------------------------------
\* The chunk store called with hashes as text (store.rs: validate_hash,
\* get, get_verified, get_mmap, exists, delete), one call after the other.
\* A hash is the sequence of its characters, at a length scaled down from 64.
\* ------------------------------------------------------------------------
EXPECTED_HASH_LEN == 2

HexDigits == <<"0", "1", "2", "3", "4", "5", "6", "7", "8", "9", "a", "b", "c", "d", "e", "f">>

\* to_hex(): the lowercase hex numeral of a digest, at the full length
RECURSIVE hex_of(_, _)
hex_of(n, width) ==
    IF width = 0 THEN << >>
    ELSE hex_of(n \div 16, width - 1) \o <<HexDigits[(n % 16) + 1]>>

\* blake3::hash(data).to_hex().to_string()
to_hex(data) == hex_of(blake3_hash(data), EXPECTED_HASH_LEN)

\* the byte strings that are stored, and that a file is overwritten with
Blobs == Inputs \cup {<<1>>}

\* n times the character c
Repeat(c, n) == [i \in 1..n |-> c]

\* the hash arguments: the hashes of the byte strings, a well-formed hash of
\* nothing stored, and hashes that are too short, too long, empty, not
\* hexadecimal, and hexadecimal in upper case
HashArgs ==
    {to_hex(d) : d \in Blobs} \cup
    {Repeat("a", EXPECTED_HASH_LEN),
     Repeat("0", EXPECTED_HASH_LEN - 1),
     Repeat("0", EXPECTED_HASH_LEN + 1),
     << >>,
     Repeat("g", EXPECTED_HASH_LEN),
     Repeat("0", EXPECTED_HASH_LEN - 1) \o <<"-">>,
     Repeat("A", EXPECTED_HASH_LEN),
     Repeat("0", EXPECTED_HASH_LEN - 1) \o <<"F">>}

\* char::is_ascii_hexdigit: 0-9, a-f and A-F
is_ascii_hexdigit(c) ==
    c \in {"0", "1", "2", "3", "4", "5", "6", "7", "8", "9",
           "a", "b", "c", "d", "e", "f", "A", "B", "C", "D", "E", "F"}

\* validate_hash: Ok(()) or InvalidHash
validate_hash(hash) ==
    /\ Len(hash) = EXPECTED_HASH_LEN
    /\ \A i \in DOMAIN hash : is_ascii_hexdigit(hash[i])

\* hash_to_path(hash).exists(): the path is spelled with the hash as given
path_exists(hash) == hash \in DOMAIN hashFiles

HashInit ==
    /\ hashFiles = << >>
    /\ hashLast = [op |-> "none", hash |-> << >>, res |-> "none", data |-> {}, actual |-> {}]

\* what a call hands back; data and actual are Options: {} or {value}
HashReturn(op, hash, res, data, actual) ==
    hashLast' = [op |-> op, hash |-> hash, res |-> res, data |-> data, actual |-> actual]

\* put(data): the file of the hash is written unless a file is there
HashPut(data) ==
    /\ hashFiles' = IF path_exists(to_hex(data)) THEN hashFiles
                    ELSE With(hashFiles, to_hex(data), data)
    /\ HashReturn("put", to_hex(data), "Ok", {}, {})

\* what get(hash) returns: the result, and the bytes read
get_result(hash) ==
    IF ~validate_hash(hash) THEN [res |-> "InvalidHash", data |-> {}]
    ELSE IF ~path_exists(hash) THEN [res |-> "NotFound", data |-> {}]
    ELSE [res |-> "Ok", data |-> {hashFiles[hash]}]

\* get(hash)
HashGet(hash) ==
    /\ HashReturn("get", hash, get_result(hash).res, get_result(hash).data, {})
    /\ UNCHANGED hashFiles

\* Mutant: a verification that accepts whatever was read
Mismatch_Never(actual_hash, hash) == FALSE

\* get_verified: if actual_hash != hash
Mismatch(actual_hash, hash) == actual_hash # hash

\* get_verified(hash): get, then the digest of the bytes against the hash
HashGetVerified(hash) ==
    /\ LET got == get_result(hash) IN
       IF got.res # "Ok" THEN HashReturn("get_verified", hash, got.res, {}, {})
       ELSE LET data == hashFiles[hash] IN
            IF Mismatch(to_hex(data), hash)
            THEN HashReturn("get_verified", hash, "HashMismatch", {}, {to_hex(data)})
            ELSE HashReturn("get_verified", hash, "Ok", {data}, {})
    /\ UNCHANGED hashFiles

\* get_mmap(hash): validate_hash, File::open with NotFound mapped, the map
HashGetMmap(hash) ==
    /\ IF ~validate_hash(hash) THEN HashReturn("get_mmap", hash, "InvalidHash", {}, {})
       ELSE IF ~path_exists(hash) THEN HashReturn("get_mmap", hash, "NotFound", {}, {})
       ELSE HashReturn("get_mmap", hash, "Ok", {hashFiles[hash]}, {})
    /\ UNCHANGED hashFiles

\* exists(hash): Ok(bool) or InvalidHash
HashExists(hash) ==
    /\ IF ~validate_hash(hash) THEN HashReturn("exists", hash, "InvalidHash", {}, {})
       ELSE IF path_exists(hash) THEN HashReturn("exists", hash, "Ok(true)", {}, {})
       ELSE HashReturn("exists", hash, "Ok(false)", {}, {})
    /\ UNCHANGED hashFiles

\* delete(hash): the file is removed when it is there, Ok(()) either way
HashDelete(hash) ==
    IF ~validate_hash(hash)
    THEN HashReturn("delete", hash, "InvalidHash", {}, {}) /\ UNCHANGED hashFiles
    ELSE /\ hashFiles' = Without(hashFiles, hash)
         /\ HashReturn("delete", hash, "Ok", {}, {})

\* the bytes of a chunk file are replaced behind the store, as
\* test_get_verified_detects_corruption does
Corrupt(hash, data) ==
    /\ path_exists(hash)
    /\ hashFiles[hash] # data
    /\ hashFiles' = [hashFiles EXCEPT ![hash] = data]
    /\ UNCHANGED hashLast

\* ------------------------------------------------------------------------
\* The Merkle tree of a data blob (udr_core/src/merkle): build_tree,
\* diff_trees and verify_tree, applied to small blobs. A byte is a
\* one-character string, so that the bytes of data and the bytes of the text
\* of hashes are hashed by one digest.
\* ------------------------------------------------------------------------
MaxDataLen == 3
MaxChunkSize == 2
MaxBranching == 3

MerkleBytes == {"x", "y"}

\* the blobs handed to build_tree, the empty one among them
MerkleData == UNION {[1..n -> MerkleBytes] : n \in 0..MaxDataLen}

\* MerkleConfig { chunk_size, branching_factor }
MerkleConfigs == [chunk_size : 0..MaxChunkSize, branching_factor : 2..MaxBranching]

\* blake3::hash(bytes).to_hex().to_string(): a text that is a function of the
\* bytes alone, differs for different bytes, and whose end is marked, as the
\* fixed length of 64 characters marks it
merkle_hash(bytes) == <<"<">> \o bytes \o <<">">>

\* std::cmp::min
min_of(a, b) == IF a <= b THEN a ELSE b

\* DataChunk::new
DataChunk_new(hash, start, end, index) ==
    [hash |-> hash, byte_range |-> <<start, end>>, size |-> end - start, index |-> index]

\* MerkleNode::new
MerkleNode_new(hash, children, level, index) ==
    [hash |-> hash, children |-> children, level |-> level, index |-> index]

\* data[start..end]
Slice(data, start, end) == SubSeq(data, start + 1, end)

\* the loop of split_into_chunks from one offset on
RECURSIVE split_from(_, _, _, _)
split_from(data, chunk_size, offset, index) ==
    IF offset >= Len(data) THEN << >>
    ELSE LET end == min_of(offset + chunk_size, Len(data))
             hash == merkle_hash(Slice(data, offset, end))
         IN <<DataChunk_new(hash, offset, end, index)>>
            \o split_from(data, chunk_size, end, index + 1)

split_into_chunks(data, chunk_size) == split_from(data, chunk_size, 0, 0)

\* slice::chunks(n): consecutive groups of n elements, the last one shorter
RECURSIVE GroupsOf(_, _)
GroupsOf(s, n) ==
    IF s = << >> THEN << >>
    ELSE <<SubSeq(s, 1, min_of(n, Len(s)))>>
         \o GroupsOf(SubSeq(s, min_of(n, Len(s)) + 1, Len(s)), n)

\* a mutant of level_groups: one node more than the branching factor in a group
level_groups_OneMore(current_level, branching_factor) ==
    GroupsOf(current_level, branching_factor + 1)

\* current_level.chunks(branching_factor)
level_groups(current_level, branching_factor) == GroupsOf(current_level, branching_factor)

\* children.join("")
RECURSIVE join(_)
join(strs) == IF strs = << >> THEN << >> ELSE Head(strs) \o join(Tail(strs))

\* the hashes of a level of nodes
hashes_of(nodes) == [i \in DOMAIN nodes |-> nodes[i].hash]

\* one pass of the loop of build_tree_from_leaves: the parents of a level
parents_of(current_level, branching_factor, level) ==
    LET groups == level_groups(current_level, branching_factor)
    IN [i \in DOMAIN groups |->
           MerkleNode_new(merkle_hash(join(groups[i])), groups[i], level, i - 1)]

\* the loop of build_tree_from_leaves: while current_level.len() > 1
RECURSIVE build_levels(_, _, _, _)
build_levels(current_level, branching_factor, level, internal_nodes) ==
    IF Len(current_level) <= 1
    THEN [root_hash |-> IF current_level = << >> THEN << >> ELSE current_level[1],
          internal_nodes |-> internal_nodes,
          height |-> level]
    ELSE LET level_nodes == parents_of(current_level, branching_factor, level)
         IN build_levels(hashes_of(level_nodes), branching_factor, level + 1,
                         Append(internal_nodes, level_nodes))

build_tree_from_leaves(leaves, branching_factor) ==
    IF leaves = << >> THEN [root_hash |-> << >>, internal_nodes |-> << >>, height |-> 0]
    ELSE IF Len(leaves) = 1
    THEN [root_hash |-> leaves[1].hash, internal_nodes |-> << >>, height |-> 1]
    ELSE build_levels(hashes_of(leaves), branching_factor, 1, << >>)

\* build_tree: Err(EmptyData), Err(InvalidChunkSize) or Ok(tree); tree is an
\* Option, << >> or <<tree>>
build_tree(data, config) ==
    IF data = << >> THEN [res |-> "EmptyData", tree |-> << >>]
    ELSE IF config.chunk_size = 0 THEN [res |-> "InvalidChunkSize", tree |-> << >>]
    ELSE LET leaves == split_into_chunks(data, config.chunk_size)
             top == build_tree_from_leaves(leaves, config.branching_factor)
         IN [res |-> "Ok",
             tree |-> <<[root_hash |-> top.root_hash,
                         chunks |-> leaves,
                         internal_nodes |-> top.internal_nodes,
                         total_size |-> Len(data),
                         chunk_size |-> config.chunk_size,
                         height |-> top.height]>>]

\* tree.chunks.iter().map(|c| &c.hash).collect::<HashSet>()
leaf_hashes(tree) == {tree.chunks[i].hash : i \in DOMAIN tree.chunks}

\* MerkleDiff::calculate_reuse_ratio; the f64 is kept as the fraction it is
\* the quotient of
calculate_reuse_ratio(unchanged_chunks, old_chunk_count, new_chunk_count) ==
    IF new_chunk_count = 0 THEN [num |-> 1, den |-> 1]
    ELSE [num |-> Len(unchanged_chunks), den |-> new_chunk_count]

\* the orders in which a HashSet hands out its elements
Orders(S) ==
    {s \in [1..Cardinality(S) -> S] : \A i, j \in 1..Cardinality(S) : s[i] = s[j] => i = j}

\* a mutant of removed_hashes: every leaf of the old tree counts as removed
removed_hashes_All(old_hashes, new_hashes) == old_hashes

\* old_hashes.difference(&new_hashes)
removed_hashes(old_hashes, new_hashes) == old_hashes \ new_hashes

\* diff_trees: the MerkleDiffs it can return, one for each order of the sets
diff_trees(old, new) ==
    LET old_hashes == leaf_hashes(old)
        new_hashes == leaf_hashes(new)
    IN {[unchanged_chunks |-> u, removed_chunks |-> r, added_chunks |-> a,
         reuse_ratio |-> calculate_reuse_ratio(u, Len(old.chunks), Len(new.chunks))] :
           u \in Orders(old_hashes \cap new_hashes),
           r \in Orders(removed_hashes(old_hashes, new_hashes)),
           a \in Orders(new_hashes \ old_hashes)}

NoDiff ==
    [unchanged_chunks |-> << >>, removed_chunks |-> << >>, added_chunks |-> << >>,
     reuse_ratio |-> [num |-> 0, den |-> 1]]

\* what a verify_tree call hands back; expected, actual and missing are
\* Options: {} or {value}
VerifyResult(res, expected, actual, missing) ==
    [res |-> res, expected |-> expected, actual |-> actual, missing |-> missing]

\* a mutant of chunk_mismatch: the bytes of a leaf are not rehashed
chunk_mismatch_Never(chunk, fetched) == FALSE

\* computed != chunk.hash
chunk_mismatch(chunk, fetched) == merkle_hash(fetched) # chunk.hash

\* the first loop of verify_tree: the leaves from index i on; {} when all pass
RECURSIVE verify_chunks(_, _, _)
verify_chunks(leaves, i, get_chunk_data) ==
    IF i > Len(leaves) THEN {}
    ELSE LET chunk == leaves[i]
             fetched == get_chunk_data[chunk.hash]
         IN IF fetched = {} THEN {VerifyResult("ChunkNotFound", {}, {}, {chunk.hash})}
            ELSE IF \E data \in fetched : chunk_mismatch(chunk, data)
            THEN {VerifyResult("IntegrityError", {chunk.hash},
                               {merkle_hash(data) : data \in fetched}, {})}
            ELSE verify_chunks(leaves, i + 1, get_chunk_data)

\* the nodes of all levels in the order the second loop visits them
RECURSIVE all_nodes(_)
all_nodes(internal_nodes) ==
    IF internal_nodes = << >> THEN << >>
    ELSE Head(internal_nodes) \o all_nodes(Tail(internal_nodes))

\* the second loop of verify_tree: the internal nodes from the i-th on
RECURSIVE verify_nodes(_, _)
verify_nodes(nodes, i) ==
    IF i > Len(nodes) THEN {}
    ELSE LET computed == merkle_hash(join(nodes[i].children))
         IN IF computed # nodes[i].hash
            THEN {VerifyResult("IntegrityError", {nodes[i].hash}, {computed}, {})}
            ELSE verify_nodes(nodes, i + 1)

\* current_level after the second loop: the hashes of the last level visited
top_level(tree) ==
    IF tree.internal_nodes = << >> THEN hashes_of(tree.chunks)
    ELSE hashes_of(tree.internal_nodes[Len(tree.internal_nodes)])

\* verify_tree(tree, get_chunk_data); get_chunk_data maps a hash to an Option
verify_tree(tree, get_chunk_data) ==
    LET leaf_error == verify_chunks(tree.chunks, 1, get_chunk_data)
        node_error == verify_nodes(all_nodes(tree.internal_nodes), 1)
        current_level == top_level(tree)
    IN IF leaf_error # {} THEN CHOOSE r \in leaf_error : TRUE
       ELSE IF node_error # {} THEN CHOOSE r \in node_error : TRUE
       ELSE IF Len(current_level) = 1 /\ current_level[1] = tree.root_hash
       THEN VerifyResult("Ok(true)", {}, {}, {})
       ELSE IF tree.internal_nodes = << >> /\ Len(tree.chunks) = 1
       THEN VerifyResult(IF tree.chunks[1].hash = tree.root_hash THEN "Ok(true)"
                         ELSE "Ok(false)", {}, {}, {})
       ELSE VerifyResult("TreeCorruption", {}, {}, {})

\* the bytes a leaf hash stands for in the blob the tree was built from
true_slice(data, tree, hash) ==
    LET i == CHOOSE k \in DOMAIN tree.chunks : tree.chunks[k].hash = hash
    IN Slice(data, tree.chunks[i].byte_range[1], tree.chunks[i].byte_range[2])

\* what a chunk provider hands back for a leaf hash: the true bytes, other
\* bytes, or nothing
FetchOptions(data, tree, hash) ==
    {{}} \cup {{b} : b \in {true_slice(data, tree, hash), << >>, <<"x">>, <<"y">>}}

\* the chunk providers verify_tree is called with
Fetchers(data, tree) ==
    {f \in [leaf_hashes(tree) -> UNION {FetchOptions(data, tree, h) : h \in leaf_hashes(tree)}] :
        \A h \in leaf_hashes(tree) : f[h] \in FetchOptions(data, tree, h)}

NoFetcher == << >>

\* the most passes of the loop of build_tree_from_leaves that are followed
MaxLevels == 4

\* MerkleConfig as with_branching_factor builds it: any factor, 0 and 1 too
BuildConfigs == [chunk_size : 0..MaxChunkSize, branching_factor : 0..MaxBranching]

\* no build_tree call under way
NoBuild ==
    [pc |-> "idle", data |-> << >>, config |-> [chunk_size |-> 0, branching_factor |-> 0],
     leaves |-> << >>, current_level |-> << >>, internal_nodes |-> << >>, level |-> 0,
     res |-> "none", tree |-> << >>]

MerkleInit ==
    /\ oldTree = << >>
    /\ newTree = << >>
    /\ merkleLast = [op |-> "none", res |-> "none", diff |-> NoDiff,
                     verify |-> VerifyResult("none", {}, {}, {}), fetcher |-> NoFetcher]
    /\ build = NoBuild

\* build_tree(data, config), kept as the old tree: the first call
BuildOld(data, config) ==
    /\ oldTree = << >>
    /\ newTree = << >>
    /\ LET r == build_tree(data, config)
       IN /\ oldTree' = IF r.res = "Ok"
                        THEN <<[data |-> data, config |-> config, tree |-> r.tree[1]]>>
                        ELSE << >>
          /\ merkleLast' = [merkleLast EXCEPT !.op = "build_tree", !.res = r.res]
    /\ UNCHANGED newTree

\* build_tree(data, config), kept as the new tree: the second call
BuildNew(data, config) ==
    /\ oldTree # << >>
    /\ newTree = << >>
    /\ merkleLast.op = "build_tree"
    /\ LET r == build_tree(data, config)
       IN /\ newTree' = IF r.res = "Ok"
                        THEN <<[data |-> data, config |-> config, tree |-> r.tree[1]]>>
                        ELSE << >>
          /\ merkleLast' = [merkleLast EXCEPT !.op = "build_tree", !.res = r.res]
    /\ UNCHANGED oldTree

\* diff_trees(old, new) on the two trees built
DiffTrees ==
    /\ oldTree # << >>
    /\ newTree # << >>
    /\ merkleLast.op = "build_tree"
    /\ \E d \in diff_trees(oldTree[1].tree, newTree[1].tree) :
          merkleLast' = [merkleLast EXCEPT !.op = "diff_trees", !.res = "Ok", !.diff = d]
    /\ UNCHANGED <<oldTree, newTree>>

\* verify_tree(tree, get_chunk_data) on the tree built first
VerifyTree(get_chunk_data) ==
    /\ oldTree # << >>
    /\ newTree = << >>
    /\ merkleLast.op \in {"build_tree", "forge_children", "forge_root"}
    /\ LET r == verify_tree(oldTree[1].tree, get_chunk_data)
       IN merkleLast' = [merkleLast EXCEPT !.op = "verify_tree", !.res = r.res,
                                           !.verify = r, !.fetcher = get_chunk_data]
    /\ UNCHANGED <<oldTree, newTree>>

MerkleNext ==
    \/ \E d \in MerkleData, c \in MerkleConfigs : BuildOld(d, c) /\ UNCHANGED <<notMerkle, build>>
    \/ \E d \in MerkleData, c \in MerkleConfigs : BuildNew(d, c) /\ UNCHANGED <<notMerkle, build>>
    \/ DiffTrees /\ UNCHANGED <<notMerkle, build>>
    \/ /\ oldTree # << >>
       /\ \E f \in Fetchers(oldTree[1].data, oldTree[1].tree) : VerifyTree(f)
       /\ UNCHANGED <<notMerkle, build>>

\* A MerkleTree is a plain record with public fields that is also read back
\* from its serialized form, so verify_tree is handed trees build_tree never
\* returned. The hashes such a tree may carry in place of the true ones:
ForgedHashes == {merkle_hash(<<"x">>), merkle_hash(<<"y">>)}

\* the children lists written into a node in place of the true ones
ForgedChildren == UNION {[1..n -> ForgedHashes] : n \in 1..2}

\* node.children = children and node.hash = the digest of their
\* concatenation, written into the i-th node of one level of the tree held
ForgeChildren(level, i, children) ==
    /\ oldTree # << >>
    /\ newTree = << >>
    /\ merkleLast.op = "build_tree"
    /\ level \in DOMAIN oldTree[1].tree.internal_nodes
    /\ i \in DOMAIN oldTree[1].tree.internal_nodes[level]
    /\ children # oldTree[1].tree.internal_nodes[level][i].children
    /\ oldTree' = [oldTree EXCEPT ![1].tree.internal_nodes[level][i] =
                      MerkleNode_new(merkle_hash(join(children)), children, @.level, @.index)]
    /\ merkleLast' = [merkleLast EXCEPT !.op = "forge_children"]
    /\ UNCHANGED newTree

\* the hashes written into root_hash: a forged one, or the hash of a node of
\* the top level of the tree held
RootHashes(tree) == ForgedHashes \cup {top_level(tree)[k] : k \in DOMAIN top_level(tree)}

\* tree.root_hash = hash, written into the tree held
ForgeRoot(hash) ==
    /\ oldTree # << >>
    /\ newTree = << >>
    /\ merkleLast.op \in {"build_tree", "forge_children"}
    /\ hash \in RootHashes(oldTree[1].tree)
    /\ hash # oldTree[1].tree.root_hash
    /\ oldTree' = [oldTree EXCEPT ![1].tree.root_hash = hash]
    /\ merkleLast' = [merkleLast EXCEPT !.op = "forge_root"]
    /\ UNCHANGED newTree

\* verify_tree on built trees and on trees changed after they were built
ForgeNext ==
    \/ \E d \in MerkleData, c \in MerkleConfigs : BuildOld(d, c) /\ UNCHANGED <<notMerkle, build>>
    \/ \E level \in 1..MaxDataLen, i \in 1..MaxDataLen, children \in ForgedChildren :
          ForgeChildren(level, i, children) /\ UNCHANGED <<notMerkle, build>>
    \/ /\ oldTree # << >>
       /\ \E hash \in RootHashes(oldTree[1].tree) : ForgeRoot(hash)
       /\ UNCHANGED <<notMerkle, build>>
    \/ /\ oldTree # << >>
       /\ \E f \in Fetchers(oldTree[1].data, oldTree[1].tree) : VerifyTree(f)
       /\ UNCHANGED <<notMerkle, build>>

\* Ok(MerkleTree { .. }) at the end of build_tree
BuildOk(b, root_hash, internal_nodes, height) ==
    [b EXCEPT !.pc = "returned", !.res = "Ok",
              !.tree = <<[root_hash |-> root_hash,
                          chunks |-> b.leaves,
                          internal_nodes |-> internal_nodes,
                          total_size |-> Len(b.data),
                          chunk_size |-> b.config.chunk_size,
                          height |-> height]>>]

\* build_tree(data, config) up to the loop of build_tree_from_leaves: the
\* two checks, the split, and the early return for a single chunk
BuildCall(data, config) ==
    /\ build.pc = "idle"
    /\ LET leaves == split_into_chunks(data, config.chunk_size)
           b == [build EXCEPT !.data = data, !.config = config]
       IN build' =
            IF data = << >> THEN [b EXCEPT !.pc = "returned", !.res = "EmptyData"]
            ELSE IF config.chunk_size = 0
            THEN [b EXCEPT !.pc = "returned", !.res = "InvalidChunkSize"]
            ELSE IF Len(leaves) = 1
            THEN BuildOk([b EXCEPT !.leaves = leaves], leaves[1].hash, << >>, 1)
            ELSE [b EXCEPT !.pc = "loop", !.leaves = leaves,
                           !.current_level = hashes_of(leaves), !.level = 1]
    /\ UNCHANGED <<oldTree, newTree, merkleLast>>

\* one pass of while current_level.len() > 1: slice::chunks panics when the
\* branching factor is 0; otherwise the parents become the current level
BuildPass ==
    /\ build.pc = "loop"
    /\ Len(build.current_level) > 1
    /\ build.level < MaxLevels
    /\ build' =
         IF build.config.branching_factor = 0 THEN [build EXCEPT !.pc = "panicked"]
         ELSE LET level_nodes ==
                    parents_of(build.current_level, build.config.branching_factor, build.level)
              IN [build EXCEPT !.current_level = hashes_of(level_nodes),
                               !.internal_nodes = Append(@, level_nodes),
                               !.level = @ + 1]
    /\ UNCHANGED <<oldTree, newTree, merkleLast>>

\* the loop has ended: the one hash left is the root
BuildReturn ==
    /\ build.pc = "loop"
    /\ Len(build.current_level) <= 1
    /\ build' = BuildOk(build, build.current_level[1], build.internal_nodes, build.level)
    /\ UNCHANGED <<oldTree, newTree, merkleLast>>

\* build_tree calls followed pass by pass
BuildNext ==
    \/ \E d \in MerkleData, c \in BuildConfigs : BuildCall(d, c) /\ UNCHANGED notMerkle
    \/ BuildPass /\ UNCHANGED notMerkle
    \/ BuildReturn /\ UNCHANGED notMerkle

\* ------------------------------------------------------------------------
\* Predicate pushdown of the Parquet codec (udr_core/src/parquet): the prune
\* rule of a PredicateFilter, and decode_with_filter and get_pruning_stats
\* on files of one or two row groups with two Int64 columns. Float64 and
\* Utf8 scalars are left out of the inputs.
\* ------------------------------------------------------------------------
MaxStat == 3
MaxValue == 1

FilterOps == {"Eq", "Ne", "Lt", "Le", "Gt", "Ge"}

\* ScalarValue::Int64(v), Int32(v), Boolean(v) with 0 and 1 for false and
\* true, and Null
Scalar(type, v) == [type |-> type, v |-> v]

\* the statistics and values handed to the prune rule; an Option is {} or {x}
StatScalars ==
    {Scalar(t, v) : t \in {"Int64", "Int32"}, v \in 0..MaxStat}
    \cup {Scalar("Boolean", 0), Scalar("Boolean", 1), Scalar("Null", 0)}
StatOptions == {{}} \cup {{s} : s \in StatScalars}

\* compare_ord
compare_ord(a, b, op) ==
    CASE op = "Eq" -> a = b
      [] op = "Ne" -> a # b
      [] op = "Lt" -> a < b
      [] op = "Le" -> a <= b
      [] op = "Gt" -> a > b
      [] op = "Ge" -> a >= b

\* ScalarValue::compare: Some(bool), or None when the types do not match or
\* the order is not meaningful
scalar_compare(self, other, op) ==
    IF self.type = "Int64" /\ other.type = "Int64" THEN {compare_ord(self.v, other.v, op)}
    ELSE IF self.type = "Int32" /\ other.type = "Int32" THEN {compare_ord(self.v, other.v, op)}
    ELSE IF self.type = "Boolean" /\ other.type = "Boolean"
    THEN (IF op = "Eq" THEN {self.v = other.v}
          ELSE IF op = "Ne" THEN {self.v # other.v}
          ELSE {})
    ELSE {}

\* a mutant of unwrap_or_false: a comparison that cannot be made counts as true
unwrap_or_false_True(o) == o # {FALSE}

\* Option<bool>::unwrap_or(false)
unwrap_or_false(o) == o = {TRUE}

\* PredicateFilter::new
PredicateFilter(column, op, value) == [column |-> column, op |-> op, value |-> value]

\* stat.scalar_compare(&self.value, op).unwrap_or(false) for a statistic that may be absent
stat_compare(stat, value, op) ==
    unwrap_or_false(UNION {scalar_compare(s, value, op) : s \in stat})

\* min.and_then(|m| self.value.scalar_compare(m, op)).unwrap_or(false)
value_compare(value, stat, op) ==
    unwrap_or_false(UNION {scalar_compare(value, s, op) : s \in stat})

\* PredicateFilter::can_prune_row_group(min, max)
filter_can_prune_row_group(filter, min_val, max_val) ==
    CASE filter.op = "Gt" -> stat_compare(max_val, filter.value, "Le")
      [] filter.op = "Ge" -> stat_compare(max_val, filter.value, "Lt")
      [] filter.op = "Lt" -> stat_compare(min_val, filter.value, "Ge")
      [] filter.op = "Le" -> stat_compare(min_val, filter.value, "Gt")
      [] filter.op = "Eq" -> \/ value_compare(filter.value, min_val, "Lt")
                             \/ value_compare(filter.value, max_val, "Gt")
      [] filter.op = "Ne" -> /\ min_val # {} /\ max_val # {}
                             /\ stat_compare(min_val, filter.value, "Eq")
                             /\ stat_compare(max_val, filter.value, "Eq")

\* the schema of the files: two Int64 columns, at the indices 0 and 1
Columns == <<"id", "qty">>

\* arrow_schema.index_of(name): {} when the schema has no such column
index_of(name) == {i - 1 : i \in {k \in DOMAIN Columns : Columns[k] = name}}

\* the row groups a file is made of: the number of rows of each
GroupSizes == {<<1>>, <<2>>, <<1, 1>>, <<2, 1>>}

Rows == [id : 0..MaxValue, qty : {0, 1}]

\* the files: row groups of rows, written with or without statistics
Files ==
    UNION {[row_groups : {g \in [DOMAIN sizes -> UNION {[1..n -> Rows] : n \in 1..2}] :
                             \A i \in DOMAIN sizes : Len(g[i]) = sizes[i]},
            write_statistics : BOOLEAN] : sizes \in GroupSizes}

NoFile == [row_groups |-> << >>, write_statistics |-> TRUE]

\* the predicates of a query: on either column, one of the wrong integer
\* type, and one on a column the schema does not have
FilterValues == 0..MaxValue
GoodFilters ==
    {PredicateFilter("id", op, Scalar("Int64", v)) : op \in FilterOps, v \in FilterValues}
    \cup {PredicateFilter("qty", op, Scalar("Int64", v)) : op \in FilterOps, v \in {0, 1}}
OddFilters ==
    {PredicateFilter("id", "Gt", Scalar("Int32", 0)),
     PredicateFilter("nonexistent", "Eq", Scalar("Int64", 1))}
SecondFilters ==
    {PredicateFilter("qty", "Eq", Scalar("Int64", 1)),
     PredicateFilter("qty", "Ne", Scalar("Int64", 1)),
     PredicateFilter("id", "Lt", Scalar("Int64", 1)),
     PredicateFilter("id", "Eq", Scalar("Int64", 1))}
FilterLists ==
    {<< >>} \cup {<<f>> : f \in GoodFilters \cup OddFilters}
    \cup {<<f, g>> : f \in GoodFilters, g \in SecondFilters}

\* column_indices: None, or Some of column indices
Projections == {{}, {{1}}, {{0, 1}}}

\* the values of a column in a row group
column_values(row_group, col_idx) ==
    {row_group[i][Columns[col_idx + 1]] : i \in DOMAIN row_group}

\* extract_column_stats: the minimum and maximum the writer stored for a
\* column chunk, (None, None) when the file was written without statistics
extract_column_stats(file, row_group, col_idx) ==
    IF file.write_statistics
    THEN LET vals == column_values(row_group, col_idx)
         IN [min |-> {Scalar("Int64", CHOOSE v \in vals : \A w \in vals : v <= w)},
             max |-> {Scalar("Int64", CHOOSE v \in vals : \A w \in vals : v >= w)}]
    ELSE [min |-> {}, max |-> {}]

\* can_prune_row_group of decoder.rs: true when any filter can prune
can_prune_row_group(file, row_group, filters) ==
    \E i \in DOMAIN filters :
        LET stats == extract_column_stats(file, row_group,
                                          CHOOSE c \in index_of(filters[i].column) : TRUE)
        IN filter_can_prune_row_group(filters[i], stats.min, stats.max)

\* apply_single_filter on the value of one row: {} stands for the
\* SchemaError "Unsupported filter"
apply_single_filter(v, op, value) ==
    IF value.type = "Int64" THEN {compare_ord(v, value.v, op)} ELSE {}

\* a mutant of row_mask: a row passes when any one filter accepts it
row_mask_Any(row, filters) ==
    \E i \in DOMAIN filters :
        apply_single_filter(row[filters[i].column], filters[i].op, filters[i].value) = {TRUE}

\* apply_filters on one row: the conjunction of the masks of the filters
row_mask(row, filters) ==
    \A i \in DOMAIN filters :
        apply_single_filter(row[filters[i].column], filters[i].op, filters[i].value) = {TRUE}

\* apply_filters fails when a filter has no mask for the type of its column
filters_supported(filters) ==
    \A i \in DOMAIN filters : filters[i].value.type = "Int64"

\* the rows of some row groups, in file order
RECURSIVE concat_batches(_)
concat_batches(groups) ==
    IF groups = << >> THEN << >> ELSE Head(groups) \o concat_batches(Tail(groups))

\* the row groups that are not pruned, in file order
RECURSIVE select_groups(_, _, _)
select_groups(file, groups, filters) ==
    IF groups = << >> THEN << >>
    ELSE (IF can_prune_row_group(file, Head(groups), filters) THEN << >> ELSE <<Head(groups)>>)
         \o select_groups(file, Tail(groups), filters)

\* the rows the row filter lets pass, in order
RECURSIVE select_rows(_, _)
select_rows(rows, filters) ==
    IF rows = << >> THEN << >>
    ELSE (IF row_mask(Head(rows), filters) THEN <<Head(rows)>> ELSE << >>)
         \o select_rows(Tail(rows), filters)

\* ProjectionMask::leaves: the projected columns of every row, all columns
\* for None
project(rows, column_indices) ==
    IF column_indices = {} THEN rows
    ELSE LET names == {Columns[i + 1] : i \in UNION column_indices}
         IN [k \in DOMAIN rows |-> [c \in names |-> rows[k][c]]]

DecodeResult(res, rows) == [res |-> res, rows |-> rows]

\* decode / decode_columns
decode(file, column_indices) ==
    LET rows == concat_batches(file.row_groups)
    IN IF rows = << >> THEN DecodeResult("EmptyData", << >>)
       ELSE DecodeResult("Ok", project(rows, column_indices))

\* decode_with_filter: the results it can return. Whether the reader hands
\* out a batch of no rows or no batch at all is the reader's choice.
decode_with_filter(file, filters, column_indices) ==
    IF filters = << >> THEN {decode(file, column_indices)}
    ELSE IF \E i \in DOMAIN filters : index_of(filters[i].column) = {}
    THEN {DecodeResult("InvalidColumn", << >>)}
    ELSE LET kept == select_groups(file, file.row_groups, filters)
         IN IF kept = << >> THEN {DecodeResult("EmptyData", << >>)}
            ELSE IF ~filters_supported(filters) THEN {DecodeResult("Arrow", << >>)}
            ELSE LET rows == select_rows(concat_batches(kept), filters)
                 IN IF rows = << >>
                    THEN {DecodeResult("EmptyData", << >>), DecodeResult("Ok", << >>)}
                    ELSE {DecodeResult("Ok", project(rows, column_indices))}

\* get_pruning_stats: (total, pruned, kept)
get_pruning_stats(file, filters) ==
    LET total == Len(file.row_groups)
        pruned == Cardinality({i \in DOMAIN file.row_groups :
                                  can_prune_row_group(file, file.row_groups[i], filters)})
    IN IF filters = << >> THEN [res |-> "Ok", counts |-> <<total, 0, total>>]
       ELSE IF \E i \in DOMAIN filters : index_of(filters[i].column) = {}
       THEN [res |-> "InvalidColumn", counts |-> <<0, 0, 0>>]
       ELSE [res |-> "Ok", counts |-> <<total, pruned, total - pruned>>]

ParquetInit ==
    /\ pqFile = NoFile
    /\ pqLast = [op |-> "none", res |-> "none", filters |-> << >>, projection |-> {},
                 min |-> {}, max |-> {}, pruned |-> FALSE, rows |-> << >>,
                 counts |-> <<0, 0, 0>>]

\* the encoder writes the file the decoder is called on
WriteFile(file) ==
    /\ pqFile' = file
    /\ pqLast' = [pqLast EXCEPT !.op = "write", !.res = "Ok"]

\* filter.can_prune_row_group(min, max)
CanPruneCall(filter, min_val, max_val) ==
    /\ pqLast' = [pqLast EXCEPT !.op = "can_prune_row_group", !.res = "Ok",
                                !.filters = <<filter>>, !.min = min_val, !.max = max_val,
                                !.pruned = filter_can_prune_row_group(filter, min_val, max_val)]
    /\ UNCHANGED pqFile

\* decoder.decode_with_filter(data, filters, column_indices)
DecodeWithFilter(filters, column_indices) ==
    /\ pqFile # NoFile
    /\ \E r \in decode_with_filter(pqFile, filters, column_indices) :
          pqLast' = [pqLast EXCEPT !.op = "decode_with_filter", !.res = r.res,
                                   !.filters = filters, !.projection = column_indices,
                                   !.rows = r.rows]
    /\ UNCHANGED pqFile

\* decoder.get_pruning_stats(data, filters)
GetPruningStats(filters) ==
    /\ pqFile # NoFile
    /\ LET r == get_pruning_stats(pqFile, filters)
       IN pqLast' = [pqLast EXCEPT !.op = "get_pruning_stats", !.res = r.res,
                                   !.filters = filters, !.counts = r.counts]
    /\ UNCHANGED pqFile

\* the prune rule called on its own, once
PruneNext ==
    \E op \in FilterOps, v \in StatScalars, min_val \in StatOptions, max_val \in StatOptions :
        /\ pqLast.op = "none"
        /\ CanPruneCall(PredicateFilter("id", op, v), min_val, max_val)
        /\ UNCHANGED notParquet

\* a file is written and then decoded
ParquetNext ==
    \/ \E file \in Files : pqLast.op = "none" /\ WriteFile(file) /\ UNCHANGED notParquet
    \/ \E fs \in FilterLists, p \in Projections :
          pqLast.op = "write" /\ DecodeWithFilter(fs, p) /\ UNCHANGED notParquet
    \/ \E fs \in FilterLists :
          pqLast.op = "write" /\ GetPruningStats(fs) /\ UNCHANGED notParquet

\* the results of the calls are kept
Init == ChunkInit /\ recording = TRUE /\ TxInit /\ CatalogInit /\ BranchInit /\ SimInit
        /\ ClockInit /\ HashInit /\ MerkleInit /\ ParquetInit /\ ConsumerInit /\ UpdInit

\* the files alone are followed, through crashes
CrashInit == ChunkInit /\ recording = FALSE /\ TxInit /\ CatalogInit /\ BranchInit /\ SimInit
             /\ ClockInit /\ HashInit /\ MerkleInit /\ ParquetInit /\ ConsumerInit /\ UpdInit

\* put, get and get_mmap on several threads
PutGetNext ==
    \/ \E t \in Threads, d \in Inputs : PutCall(t, d) /\ UNCHANGED notChunk
    \/ \E t \in Threads : PutCreate(t) /\ UNCHANGED notChunk
    \/ \E t \in Threads : PutWrite(t) /\ UNCHANGED notChunk
    \/ \E t \in Threads : PutRename(t) /\ UNCHANGED notChunk
    \/ \E t \in Threads : PutRenameFailed(t) /\ UNCHANGED notChunk
    \/ \E t \in Threads : PutRemoveTemp(t) /\ UNCHANGED notChunk
    \/ \E t \in Threads, h \in Hashes : GetCall(t, h) /\ UNCHANGED notChunk
    \/ \E t \in Threads : GetRead(t) /\ UNCHANGED notChunk
    \/ \E t \in Threads, h \in Hashes : GetMmap(t, h) /\ UNCHANGED notChunk

\* every operation of the chunk store on several threads
StoreNext ==
    \/ PutGetNext
    \/ \E t \in Threads, h \in Hashes : DeleteCall(t, h) /\ UNCHANGED notChunk
    \/ \E t \in Threads : DeleteRemove(t) /\ UNCHANGED notChunk
    \/ \E t \in Threads : CleanupCall(t) /\ UNCHANGED notChunk
    \/ \E t \in Threads : CleanupRemove(t) /\ UNCHANGED notChunk
    \/ \E t \in Threads : CleanupReturn(t) /\ UNCHANGED notChunk

\* put and cleanup_orphaned_temp_files on several threads
CleanupNext ==
    \/ \E t \in Threads, d \in Inputs : PutCall(t, d) /\ UNCHANGED notChunk
    \/ \E t \in Threads : PutCreate(t) /\ UNCHANGED notChunk
    \/ \E t \in Threads : PutWrite(t) /\ UNCHANGED notChunk
    \/ \E t \in Threads : PutRename(t) /\ UNCHANGED notChunk
    \/ \E t \in Threads : PutRenameFailed(t) /\ UNCHANGED notChunk
    \/ \E t \in Threads : PutRemoveTemp(t) /\ UNCHANGED notChunk
    \/ \E t \in Threads : CleanupCall(t) /\ UNCHANGED notChunk
    \/ \E t \in Threads : CleanupRemove(t) /\ UNCHANGED notChunk
    \/ \E t \in Threads : CleanupReturn(t) /\ UNCHANGED notChunk

\* every operation of the chunk store on several threads, and a crash
ChunkNext ==
    \/ StoreNext
    \/ Crash /\ UNCHANGED notChunk

\* the calls of the transaction manager
TxNext ==
    \/ Begin /\ UNCHANGED notTx
    \/ \E tx \in TxIds, t \in Tables : AddWrite(tx, t) /\ UNCHANGED notTx
    \/ \E tx \in TxIds, t \in Tables : RecordRead(tx, t) /\ UNCHANGED notTx
    \/ \E tx \in TxIds : CommitValidate(tx) /\ UNCHANGED notTx
    \/ \E t \in Tables : CommitCatalog(t) /\ UNCHANGED notTx
    \/ CommitHead /\ UNCHANGED notTx
    \/ CommitFinish /\ UNCHANGED notTx
    \/ \E tx \in TxIds : Abort(tx) /\ UNCHANGED notTx

\* the steps of a commit after its validation: a commit under way goes on
CommitSteps == (\E t \in Tables : CommitCatalog(t)) \/ CommitHead \/ CommitFinish

\* transactions that begin, write, commit and abort in any order, and the
\* consumer polling in between
ConsumerNext ==
    \/ Begin /\ UNCHANGED notTx
    \/ \E tx \in TxIds, t \in Tables : AddWrite(tx, t) /\ UNCHANGED notTx
    \/ \E tx \in TxIds : CommitValidate(tx) /\ UNCHANGED notTx
    \/ \E t \in Tables : CommitCatalog(t) /\ UNCHANGED notTx
    \/ CommitHead /\ UNCHANGED notTx
    \/ CommitFinish /\ UNCHANGED notTx
    \/ \E tx \in TxIds : Abort(tx) /\ UNCHANGED notTx
    \/ Poll /\ UNCHANGED notConsumer

\* the calls of the transaction manager, a crash and the recovery after it
TxCrashNext ==
    \/ TxNext
    \/ TxCrash /\ UNCHANGED notTx
    \/ RecoverAndApply /\ UNCHANGED notTx

\* commit calls on the catalog, of any version from 0 to one past the bound
CatalogNext ==
    \E t \in Tables, v \in 0..MaxVersion + 1 :
        /\ latest_version(t) < MaxVersion \/ InvalidVersion(t, v)
        /\ CatalogCommit(t, v)
        /\ UNCHANGED notCatalog

\* the names of the branches that are created, written and merged
MergeNames == {DEFAULT_BRANCH, <<"d", "e", "v">>, <<"a", "/", "b">>}

\* create, update_head and merge_fast_forward, one call after the other
BranchNext ==
    \/ \E n \in MergeNames, f \in MergeNames \cup {NoName} :
          BranchCreate(n, f) /\ UNCHANGED notBranch
    \/ \E b \in MergeNames, t \in Tables, v \in 1..MaxHead :
          BranchUpdateHead(b, t, v) /\ UNCHANGED notBranch
    \/ \E a \in MergeNames, b \in MergeNames : MergeFastForward(a, b) /\ UNCHANGED notBranch

\* the branches that are created where update_head is followed on its own
HeadNames == {DEFAULT_BRANCH, <<"d", "e", "v">>}

\* create and update_head, the latter also on a branch that is never created
HeadNext ==
    \/ \E n \in HeadNames, f \in HeadNames \cup {NoName} :
          BranchCreate(n, f) /\ UNCHANGED notBranch
    \/ \E b \in MergeNames, t \in Tables, v \in 1..MaxHead :
          BranchUpdateHead(b, t, v) /\ UNCHANGED notBranch

\* one update_head call on each thread, their steps in any order
UpdateHeadNext ==
    \/ \E t \in Threads, b \in HeadNames, table \in Tables, v \in 1..MaxHead :
          UpdateHeadCall(t, b, table, v) /\ UNCHANGED notBranchThreads
    \/ \E t \in Threads : UpdateHeadGet(t) /\ UNCHANGED notBranchThreads
    \/ \E t \in Threads : UpdateHeadWrite(t) /\ UNCHANGED notBranchThreads
    \/ \E t \in Threads : UpdateHeadRename(t) /\ UNCHANGED notBranchThreads

\* every call that changes the branch files, with every name, on one table
BranchAdminNext ==
    \/ \E n \in BranchNames, f \in BranchNames \cup {NoName} :
          BranchCreate(n, f) /\ UNCHANGED notBranch
    \/ \E n \in BranchNames : BranchDelete(n) /\ UNCHANGED notBranch
    \/ \E b \in BranchNames : BranchUpdateHead(b, "users", 1) /\ UNCHANGED notBranch
    \/ \E a \in BranchNames, b \in BranchNames : MergeFastForward(a, b) /\ UNCHANGED notBranch
    \/ \E n \in BranchNames : BranchSetDefault(n) /\ UNCHANGED notBranch

\* create, delete and set_default, with every name
DefaultNext ==
    \/ \E n \in BranchNames, f \in BranchNames \cup {NoName} :
          BranchCreate(n, f) /\ UNCHANGED notBranch
    \/ \E n \in BranchNames : BranchDelete(n) /\ UNCHANGED notBranch
    \/ \E n \in BranchNames : BranchSetDefault(n) /\ UNCHANGED notBranch

\* the branches made from main
Children == {b \in MergeNames \ {DEFAULT_BRANCH} : branch_exists(b)}

\* a merge has been applied
Merged == brLast.op = "merge_fast_forward" /\ brLast.res = "Ok"

\* main takes its heads, one branch is created from it, and from then on
\* that branch alone is written, by tables added or advanced, until it is
\* merged into main
FastForwardNext ==
    \/ \E t \in Tables, v \in 1..MaxHead :
          /\ Children = {}
          /\ BranchUpdateHead(DEFAULT_BRANCH, t, v) /\ UNCHANGED notBranch
    \/ \E b \in MergeNames \ {DEFAULT_BRANCH} :
          /\ Children = {}
          /\ BranchCreate(b, DEFAULT_BRANCH) /\ UNCHANGED notBranch
    \/ \E b \in Children, t \in Tables, v \in 1..MaxHead :
          /\ ~Merged
          /\ t \in DOMAIN get(b).head => v > get(b).head[t]
          /\ BranchUpdateHead(b, t, v) /\ UNCHANGED notBranch
    \/ \E b \in Children :
          /\ ~Merged
          /\ MergeFastForward(b, DEFAULT_BRANCH) /\ UNCHANGED notBranch

\* the calls on a simulated cluster
SimNext ==
    \/ \E c \in Conditions : WithConfig(c) /\ UNCHANGED notSim
    \/ \E n \in Nodes, k \in Keys, d \in Deltas : CommitOnNode(n, k, d) /\ UNCHANGED notSim
    \/ \E a \in Nodes, b \in Nodes : a # b /\ Partition(a, b) /\ UNCHANGED notSim
    \/ HealPartitions /\ UNCHANGED notSim
    \/ RequeueAllUpdates /\ UNCHANGED notSim
    \/ PropagateRound /\ UNCHANGED notSim
    \/ PropagateAll /\ UNCHANGED notSim

\* set, tick and merge on three vector clocks
ClockNext ==
    \/ \E c \in ClockNames, n \in NodeIds, t \in 0..MaxTime :
          ClockSet(c, n, t) /\ UNCHANGED <<notClock, clockLast>>
    \/ \E c \in ClockNames, n \in NodeIds :
          ClockTick(c, n) /\ UNCHANGED <<notClock, clockLast>>
    \/ \E c \in ClockNames, d \in ClockNames :
          ClockMerge(c, d) /\ UNCHANGED <<notClock, clockLast>>

\* the clocks two processes keep, set to any time and ticked
TickNames == {"A", "B"}

\* set and tick over the whole range of a time
TickNext ==
    \/ \E c \in TickNames, n \in NodeIds, t \in 0..U64_MAX :
          ClockSet(c, n, t) /\ UNCHANGED <<notClock, clockLast>>
    \/ \E c \in TickNames, n \in NodeIds : ClockTickCall(c, n) /\ UNCHANGED notClock

\* clocks set to any time, and messages passed between the two processes
ReceiveNext ==
    \/ \E c \in TickNames, n \in NodeIds, t \in 0..U64_MAX :
          ClockSet(c, n, t) /\ UNCHANGED <<notClock, clockLast>>
    \/ \E c \in TickNames, d \in TickNames, n \in NodeIds :
          ClockReceive(c, d, n) /\ UNCHANGED notClock

\* the calls with a hash argument, and files that change behind the store
HashNext ==
    \/ \E d \in Blobs : HashPut(d) /\ UNCHANGED notHash
    \/ \E h \in HashArgs : HashGet(h) /\ UNCHANGED notHash
    \/ \E h \in HashArgs : HashGetVerified(h) /\ UNCHANGED notHash
    \/ \E h \in HashArgs : HashGetMmap(h) /\ UNCHANGED notHash
    \/ \E h \in HashArgs : HashExists(h) /\ UNCHANGED notHash
    \/ \E h \in HashArgs : HashDelete(h) /\ UNCHANGED notHash
    \/ \E h \in HashArgs, d \in Blobs : Corrupt(h, d) /\ UNCHANGED notHash

PutGetSpec == Init /\ [][PutGetNext]_vars
StoreSpec == Init /\ [][StoreNext]_vars
ChunkSpec == CrashInit /\ [][ChunkNext]_vars
TxSpec == Init /\ [][TxNext]_vars
TxCrashSpec == Init /\ [][TxCrashNext]_vars
CatalogSpec == Init /\ [][CatalogNext]_vars
BranchSpec == Init /\ [][BranchNext]_vars
BranchAdminSpec == Init /\ [][BranchAdminNext]_vars
FastForwardSpec == Init /\ [][FastForwardNext]_vars
HeadSpec == Init /\ [][HeadNext]_vars
SimSpec == Init /\ [][SimNext]_vars
ClockSpec == Init /\ [][ClockNext]_vars
TickSpec == Init /\ [][TickNext]_vars
HashSpec == Init /\ [][HashNext]_vars
MerkleSpec == Init /\ [][MerkleNext]_vars
ForgeSpec == Init /\ [][ForgeNext]_vars
DefaultSpec == Init /\ [][DefaultNext]_vars
CleanupSpec == Init /\ [][CleanupNext]_vars
UpdateHeadSpec == Init /\ [][UpdateHeadNext]_vars
ConsumerSpec ==
    /\ Init /\ [][ConsumerNext]_vars
    /\ WF_vars(CommitSteps /\ UNCHANGED notTx)
    /\ WF_vars(Poll /\ UNCHANGED notConsumer)
ReceiveSpec == Init /\ [][ReceiveNext]_vars
BuildSpec == Init /\ [][BuildNext]_vars /\ WF_vars(BuildNext)
PruneSpec == Init /\ [][PruneNext]_vars
ParquetSpec == Init /\ [][ParquetNext]_vars

\* ------------------------------------------------------------------------
\* Claims about the chunk store
\* ------------------------------------------------------------------------

\* the files of the chunk directory that belong to one hash
FilesFor(hash) ==
    (IF exists(hash) THEN {<<"final", hash>>} ELSE {}) \cup
    {<<"tmp", p>> : p \in {q \in DOMAIN temps : q[1] = hash}}

AllIdle == \A t \in Threads : pc[t] = "idle"

\* C1: under any interleaving of put, delete and cleanup_orphaned_temp_files
\* and a crash at any step, every file at a final chunk path holds content
\* whose digest is the file name; partial data lives in .tmp files only.
C1_FinalPathHashesToName ==
    \A h \in DOMAIN chunks : blake3_hash(chunks[h]) = h

\* a crash left a half-written temp file behind that no call owns, a later
\* put of the same content has stored the chunk, and a delete of it and a
\* cleanup are on their way
C1_Witness ==
    /\ crashes > 0
    /\ \E p \in DOMAIN temps : temps[p] = <<1>> /\ p[1] = blake3_hash(<<1, 2>>)
    /\ exists(blake3_hash(<<1, 2>>))
    /\ \E t \in Threads : pc[t] = "delete_remove" /\ loc[t].hash = blake3_hash(<<1, 2>>)
    /\ \E t \in Threads : pc[t] = "cleanup_loop" /\ loc[t].entries # {}

\* C2: put(d) returns the digest of d every time, and get of a hash that a
\* put has returned and delete was never called on returns exactly d.
C2_PutGetRoundTrip ==
    /\ (last.op = "put" /\ last.res = "Ok") => last.hash = blake3_hash(last.data)
    /\ (last.op = "get" /\ last.settled) =>
          /\ last.res = "Ok"
          /\ \E d \in Inputs : blake3_hash(d) = last.hash /\ last.data = d

\* get returned the empty byte string after its put, with another chunk stored
C2_Witness ==
    /\ last.op = "get" /\ last.settled /\ last.res = "Ok" /\ last.data = << >>
    /\ exists(blake3_hash(<<1, 2>>))

\* C3: concurrent puts (of identical content among them) all return Ok with
\* the digest, and once every call has returned each content put has exactly
\* one file, the final one, and no temp file is left.
C3_ConcurrentPutsDeduplicate ==
    /\ last.op = "put" => (last.res = "Ok" /\ last.hash = blake3_hash(last.data))
    /\ AllIdle =>
          /\ temps = << >>
          /\ \A h \in putDone : FilesFor(h) = {<<"final", h>>}

\* one put of a content has returned Ok while another put of the same
\* content, begun before the chunk existed, lost the rename race
C3_Witness ==
    /\ last.op = "put" /\ last.res = "Ok"
    /\ \E t \in Threads : pc[t] = "put_remove_beaten" /\ loc[t].hash = last.hash

\* C4: a get or get_mmap that runs beside puts returns NotFound or the
\* complete content, never a prefix of it.
C4_ReadsSeeWholeChunks ==
    last.op \in {"get", "get_mmap"} =>
        \/ last.res = "NotFound"
        \/ last.res = "Ok" /\ blake3_hash(last.data) = last.hash

\* a read of a hash returned while a put of that content was half written
C4_Witness ==
    /\ last.op \in {"get", "get_mmap"}
    /\ \E t \in Threads :
          /\ pc[t] = "put_write" /\ loc[t].written = 1
          /\ loc[t].hash = last.hash
          /\ loc[t].temp \in DOMAIN temps /\ temps[loc[t].temp] = <<1>>

\* ------------------------------------------------------------------------
\* Claims about the transaction manager
\* ------------------------------------------------------------------------

Committed == {tx \in DOMAIN txs : txs[tx].status = "Committed"}

\* both were Pending at one time: each began before the other committed
Concurrent(a, b) ==
    /\ WalPos("Begin", a) < WalPos("Commit", b)
    /\ WalPos("Begin", b) < WalPos("Commit", a)

\* this step is a call of commit on tx, which was Pending: it passes the
\* validation and takes the lock, or it returns an error
CommitCalledOn(tx) ==
    /\ Ready
    /\ txs[tx].status = "Pending"
    /\ \/ committing'.tx = tx
       \/ txLast'.op = "commit" /\ txLast'.tx = tx /\ txs'[tx].status # "Pending"

\* the persisted tables of the manager are as they were
PersistedUnchanged ==
    /\ catalog' = catalog
    /\ head' = head
    /\ changelog' = changelog

\* the TableVersions a transaction's chunk list is found in
VersionsBy(tx) ==
    {<<t, i>> : t \in Tables, i \in 1..MaxTx + 1} \cap
    {<<t, i>> \in UNION {{<<u, j>> : j \in DOMAIN catalog[u]} : u \in Tables} :
        catalog[t][i].chunk_hashes = chunks_of(tx)}

\* the transactions in the order of their Commit records
RECURSIVE CommitOrder(_)
CommitOrder(log) ==
    IF log = << >> THEN << >>
    ELSE IF log[1].kind = "Commit" THEN <<log[1].tx>> \o CommitOrder(Tail(log))
    ELSE CommitOrder(Tail(log))

\* C5: of two transactions that were Pending at the same time and write a
\* common table at most one is Committed, and commit of a Pending
\* transaction that writes a table written by a transaction committed since
\* its begin returns WriteConflict or SnapshotConflict and applies nothing.
C5_OverlappingWritersConflict ==
    /\ [](\A a \in Committed : \A b \in Committed \ {a} :
            Concurrent(a, b) => DOMAIN txs[a].writes \cap DOMAIN txs[b].writes = {})
    /\ [][\A tx \in DOMAIN txs :
            (/\ CommitCalledOn(tx)
             /\ \E o \in Committed :
                  /\ WalPos("Commit", o) > WalPos("Begin", tx)
                  /\ DOMAIN txs[o].writes \cap DOMAIN txs[tx].writes # {})
            => /\ txLast'.op = "commit" /\ txLast'.tx = tx
               /\ txLast'.res \in {"WriteConflict", "SnapshotConflict"}
               /\ txs'[tx].status = "Aborted"
               /\ committing' = NoCommit]_vars

\* the second of two writers of the new table orders got WriteConflict
C5_Witness ==
    /\ txLast.op = "commit" /\ txLast.res = "WriteConflict"
    /\ txLast.detail = {"orders"}
    /\ \E o \in Committed : "orders" \in DOMAIN txs[o].writes

\* C6: commit of a transaction whose read snapshot holds a table whose
\* branch head has moved returns SnapshotConflict with that table, the
\* version read and the current version, and leaves the catalog, the branch
\* heads and the changelog as they were.
C6_SnapshotConflictAborts ==
    [][\A tx \in DOMAIN txs :
         (/\ CommitCalledOn(tx)
          /\ \E t \in DOMAIN txs[tx].read_snapshot : head[t] # txs[tx].read_snapshot[t])
         => /\ txLast'.op = "commit" /\ txLast'.tx = tx
            /\ txLast'.res = "SnapshotConflict"
            /\ txLast'.detail.table \in DOMAIN txs[tx].read_snapshot
            /\ txLast'.detail.read_version = txs[tx].read_snapshot[txLast'.detail.table]
            /\ txLast'.detail.current_version = head[txLast'.detail.table]
            /\ txLast'.detail.read_version # txLast'.detail.current_version
            /\ committing' = NoCommit
            /\ PersistedUnchanged]_vars

\* T1 and T2 both saw users@1, T1 committed users@2, commit of T2 returned
\* SnapshotConflict{users, 1, 2}
C6_Witness ==
    /\ txLast.op = "commit" /\ txLast.res = "SnapshotConflict"
    /\ txLast.detail = [table |-> "users", read_version |-> 1, current_version |-> 2]
    /\ \E o \in Committed : "users" \in DOMAIN txs[o].writes

\* the transaction whose Commit record is the last among the committed
\* writers of the table
LastWriter(table) ==
    CHOOSE a \in Committed :
        /\ table \in DOMAIN txs[a].writes
        /\ \A b \in Committed :
              table \in DOMAIN txs[b].writes => WalPos("Commit", b) <= WalPos("Commit", a)

\* a commit that holds the lock is writing a new version of the table
BeingReplaced(table) ==
    committing.tx # None /\ table \in DOMAIN txs[committing.tx].writes

ExpectedError(op, status) ==
    IF op \in {"add_write", "record_read"} THEN "TransactionNotActive"
    ELSE IF status = "Committed" THEN "AlreadyCommitted"
    ELSE "AlreadyAborted"

\* C8: a transaction that is Committed or Aborted stays as it is, and
\* commit, abort, add_write and record_read on it return AlreadyCommitted,
\* AlreadyAborted or TransactionNotActive and change nothing.
C8_TerminalStatesAreFinal ==
    /\ [][\A tx \in DOMAIN txs : txs[tx].status # "Pending" => txs'[tx] = txs[tx]]_vars
    /\ [][(/\ Ready /\ committing' = NoCommit
           /\ txLast'.op \in {"commit", "abort", "add_write", "record_read"}
           /\ txs[txLast'.tx].status # "Pending")
          => /\ txLast'.res = ExpectedError(txLast'.op, txs[txLast'.tx].status)
             /\ txs' = txs /\ wal' = wal /\ nextTx' = nextTx
             /\ PersistedUnchanged]_vars

\* add_write on a Committed transaction returned TransactionNotActive
\* while another transaction is Aborted
C8_Witness ==
    /\ txLast.op = "add_write" /\ txLast.res = "TransactionNotActive"
    /\ txs[txLast.tx].status = "Committed"
    /\ \E o \in DOMAIN txs : txs[o].status = "Aborted"

\* C9: after a crash at any point and recover_and_apply, a transaction
\* without a Commit record is Aborted and none of its writes is in the
\* catalog or a branch head; a transaction with a Commit record is Committed
\* and all its writes are in the catalog.
C9_RecoveryRollsBack ==
    txLast.op = "recover_and_apply" =>
        \A tx \in DOMAIN txs :
            IF WalHas("Commit", tx)
            THEN /\ txs[tx].status = "Committed"
                 /\ \A t \in DOMAIN txs[tx].writes :
                       \E i \in DOMAIN catalog[t] :
                          /\ catalog[t][i].version = txs[tx].writes[t].new_version
                          /\ catalog[t][i].chunk_hashes = chunks_of(tx)
            ELSE /\ txs[tx].status = "Aborted"
                 /\ VersionsBy(tx) = {}

\* C10: get_changelog returns one entry for each committed transaction and
\* no other, in strictly increasing tx_id order, which is the order of the
\* Commit records in the WAL.
C10_ChangelogInCommitOrder ==
    LET entries == get_changelog(None)
        ids == [i \in DOMAIN entries |-> entries[i].tx_id]
    IN /\ {ids[i] : i \in DOMAIN ids} = Committed
       /\ Len(changelog) = Cardinality(Committed)
       /\ \A i \in DOMAIN ids : \A j \in DOMAIN ids : i < j => ids[i] < ids[j]
       /\ ids = CommitOrder(wal)

\* ------------------------------------------------------------------------
\* Claims about the catalog
\* ------------------------------------------------------------------------

\* C11: list_versions of every table is 1, 2, ..., n without gap or
\* duplicate and get_version without a version returns version n, and a
\* commit of a version other than n + 1 returns InvalidVersion with n + 1
\* and the version given, and leaves the catalog as it was.
C11_VersionsAreGapless ==
    /\ [](\A t \in Tables :
            /\ list_versions(t) = [i \in 1..Len(catalog[t]) |-> i]
            /\ catalog[t] # << >> => get_version(t).version = Len(catalog[t]))
    /\ [][\A t \in Tables :
            (catLast'.table = t /\ catLast'.res = "InvalidVersion")
            => /\ catLast'.detail.expected = Len(catalog[t]) + 1
               /\ catLast'.detail.got # Len(catalog[t]) + 1
               /\ catalog' = catalog]_vars
    /\ [][\A t \in Tables :
            (catLast'.table = t /\ catLast'.res = "Ok")
            => /\ catLast'.detail = Len(catalog[t]) + 1
               /\ Len(catalog'[t]) = Len(catalog[t]) + 1]_vars

\* a commit of version 3 to a table whose latest version is 1 was rejected,
\* and the other table has two versions
C11_Witness ==
    /\ catLast.res = "InvalidVersion" /\ catLast.table = "users"
    /\ catLast.detail = [expected |-> 2, got |-> 3]
    /\ list_versions("orders") = <<1, 2>>

\* ------------------------------------------------------------------------
\* Claims about the branch manager
\* ------------------------------------------------------------------------

\* the branch files other than the one of the name are as they were
OtherBranchesUnchanged(name) ==
    \A p \in (DOMAIN branchFiles \cup DOMAIN branchFiles') \ {branch_path(name)} :
        /\ p \in DOMAIN branchFiles /\ p \in DOMAIN branchFiles'
        /\ branchFiles'[p] = branchFiles[p]

\* C12: create(name, from) with a valid name that no branch file stands for
\* returns Ok and stores a branch of that name whose head map is the head
\* map of the source at that moment and whose parent_branch is the name of
\* the source, changing no other branch; and update_head on a branch or on
\* the branch it was created from changes the head of that one alone.
C12_CreateCopiesHead ==
    /\ [][\A n \in MergeNames, f \in MergeNames :
            (/\ brLast'.op = "create"
             /\ validate_branch_name(n) /\ ~branch_exists(n) /\ branch_exists(f)
             /\ BranchCreate(n, f))
            => /\ brLast' = [op |-> "create", res |-> "Ok", detail |-> n]
               /\ branch_path(n) \in DOMAIN branchFiles'
               /\ branchFiles'[branch_path(n)].name = n
               /\ branchFiles'[branch_path(n)].head = get(f).head
               /\ branchFiles'[branch_path(n)].parent_branch = get(f).name
               /\ OtherBranchesUnchanged(n)]_vars
    /\ [][(brLast'.op = "update_head" /\ brLast'.res = "Ok") =>
            \A p \in DOMAIN branchFiles :
                LET child == branchFiles[p]
                    parent == child.parent_branch
                    called == branch_path(brLast'.detail)
                IN (parent # NoName /\ branch_exists(parent)) =>
                     /\ called = p => branchFiles'[branch_path(parent)] = get(parent)
                     /\ called = branch_path(parent) => branchFiles'[p] = child]_vars

\* dev was created from main when main had users at 1; since then main
\* moved users to 2 and dev added orders, and each still has its own head
C12_Witness ==
    /\ brLast.op = "update_head" /\ brLast.res = "Ok"
    /\ branch_exists(<<"d", "e", "v">>)
    /\ get(<<"d", "e", "v">>).parent_branch = DEFAULT_BRANCH
    /\ get(<<"d", "e", "v">>).head = [t \in Tables |-> 1]
    /\ get(DEFAULT_BRANCH).head = [t \in {"users"} |-> 2]

\* the tables that both branches have, at different versions
Differing(source, target) ==
    {t \in DOMAIN get(source).head \cap DOMAIN get(target).head :
        get(source).head[t] # get(target).head[t]}

\* C13: merge_fast_forward(source, into) of two branches returns Ok exactly
\* when can_fast_forward(source, into) is true, which is when no table has
\* different versions on the two; otherwise it returns MergeConflict with
\* exactly the tables whose versions differ, each once, and no branch file
\* changes.
C13_MergeRefusesDivergence ==
    [][brLast'.op = "merge_fast_forward" =>
         LET s == brLast'.detail.source
             i == brLast'.detail.into
         IN (branch_exists(s) /\ branch_exists(i)) =>
               /\ brLast'.res = "Ok" <=> can_fast_forward(s, i)
               /\ can_fast_forward(s, i) <=> Differing(s, i) = {}
               /\ brLast'.res # "Ok" =>
                     /\ brLast'.res = "MergeConflict"
                     /\ {brLast'.detail.tables[k] : k \in DOMAIN brLast'.detail.tables}
                            = Differing(s, i)
                     /\ Len(brLast'.detail.tables) = Cardinality(Differing(s, i))
                     /\ branchFiles' = branchFiles]_vars

\* a merge of two branches that hold both tables at different versions was
\* refused with both tables listed
C13_Witness ==
    /\ brLast.op = "merge_fast_forward" /\ brLast.res = "MergeConflict"
    /\ brLast.detail.tables = <<"orders", "users">>
    /\ \E p \in DOMAIN branchFiles : branchFiles[p].head = [t \in Tables |-> 2]
    /\ \E p \in DOMAIN branchFiles : branchFiles[p].head = [t \in Tables |-> 1]

\* C14: after merge_fast_forward(source, into) has returned Ok, the head of
\* into maps every table of source to the version of source and every table
\* only into had to its old version, and the file of source and of every
\* other branch is as it was.
C14_MergeAppliesSourceHeads ==
    [][(brLast'.op = "merge_fast_forward" /\ brLast'.res = "Ok") =>
         LET s == brLast'.detail.source
             i == brLast'.detail.into
             merged == branchFiles'[branch_path(i)].head
         IN /\ DOMAIN merged = DOMAIN get(s).head \cup DOMAIN get(i).head
            /\ \A t \in DOMAIN get(s).head : merged[t] = get(s).head[t]
            /\ \A t \in DOMAIN get(i).head \ DOMAIN get(s).head : merged[t] = get(i).head[t]
            /\ branchFiles'[branch_path(i)].name = get(i).name
            /\ branchFiles'[branch_path(i)].parent_branch = get(i).parent_branch
            /\ OtherBranchesUnchanged(i)]_vars

\* main had users alone, a/b had orders alone; after the merge of a/b into
\* main, main has both, a/b and dev are as they were
C14_Witness ==
    /\ brLast.op = "merge_fast_forward" /\ brLast.res = "Ok"
    /\ get(DEFAULT_BRANCH).head = [t \in Tables |-> IF t = "users" THEN 1 ELSE 2]
    /\ branch_exists(<<"a", "/", "b">>)
    /\ get(<<"a", "/", "b">>).head = [t \in {"orders"} |-> 2]
    /\ branch_exists(<<"d", "e", "v">>)
    /\ get(<<"d", "e", "v">>).head = << >>

\* C15: a branch created from main and then written alone, by tables added
\* or existing tables advanced, can be fast-forwarded into main:
\* can_fast_forward(branch, main) is true, and merge_fast_forward(branch,
\* main) returns Ok and makes the head of main equal to the head of the
\* branch.
C15_ChildFastForwards ==
    /\ [](\A b \in Children : ~Merged => can_fast_forward(b, DEFAULT_BRANCH))
    /\ [][brLast'.op = "merge_fast_forward" =>
            /\ brLast'.res = "Ok"
            /\ branchFiles'[branch_path(DEFAULT_BRANCH)].head = get(brLast'.detail.source).head]_vars

\* C16: whatever create, delete, set_default, update_head and
\* merge_fast_forward calls were made, the branch main exists, and every
\* delete("main") is refused with CannotDeleteDefault.
C16_MainIsNeverDeleted ==
    /\ [](branch_exists(DEFAULT_BRANCH))
    /\ [][(brLast'.op = "delete" /\ brLast'.detail = DEFAULT_BRANCH) =>
            brLast'.res = "CannotDeleteDefault"]_vars

\* C17: for all branches a and b, diff(a, b).modified and diff(b, a).modified
\* list the same tables in the same order with the two versions swapped,
\* the tables added in the source of one are the tables added in the target
\* of the other, unchanged is the same list, and has_conflicts is the same.
C17_DiffIsSymmetric ==
    \A a \in MergeNames, b \in MergeNames :
        (branch_exists(a) /\ branch_exists(b)) =>
            LET ab == diff(a, b)
                ba == diff(b, a)
            IN /\ Len(ab.modified) = Len(ba.modified)
               /\ \A i \in DOMAIN ab.modified :
                     ba.modified[i] = <<ab.modified[i][1], ab.modified[i][3], ab.modified[i][2]>>
               /\ ab.added_in_source = ba.added_in_target
               /\ ab.added_in_target = ba.added_in_source
               /\ ab.unchanged = ba.unchanged
               /\ ab.has_conflicts = ba.has_conflicts
               /\ ab.source_branch = ba.target_branch

\* dev has users at 2 and orders, main has users at 1 alone, and a/b has
\* what main has: every list of a diff is non-empty for some pair
C17_Witness ==
    /\ branch_exists(<<"d", "e", "v">>) /\ branch_exists(<<"a", "/", "b">>)
    /\ diff(<<"d", "e", "v">>, DEFAULT_BRANCH).modified = <<(<<"users", 2, 1>>)>>
    /\ diff(<<"d", "e", "v">>, DEFAULT_BRANCH).added_in_source = <<(<<"orders", 1>>)>>
    /\ diff(DEFAULT_BRANCH, <<"d", "e", "v">>).added_in_target = <<(<<"orders", 1>>)>>
    /\ diff(<<"a", "/", "b">>, DEFAULT_BRANCH).unchanged = <<"users">>

\* ------------------------------------------------------------------------
\* Claims about the simulated cluster
\* ------------------------------------------------------------------------

\* the sum of the deltas of a set of updates
RECURSIVE SumOf(_)
SumOf(updates) ==
    IF updates = {} THEN 0
    ELSE LET u == CHOOSE x \in updates : TRUE IN u.delta + SumOf(updates \ {u})

\* C18: once the partitions are healed, requeue_all_updates has been called
\* and propagate_all has run, verify_convergence is true and the value of
\* every node for every key is the sum of the deltas committed for the key
\* on any node, each counted once.
C18_HealedClusterConverges ==
    phase = "settled" =>
        /\ verify_convergence
        /\ \A n \in Nodes, key \in Keys :
              LET deltas == {u \in Committed_updates : u.key = key}
              IN IF deltas = {} THEN get_node_state(n, key) = None
                 ELSE get_node_state(n, key) = SumOf(deltas)

\* ------------------------------------------------------------------------
\* Claims about vector clocks
\* ------------------------------------------------------------------------

\* C19: for all vector clocks A, B and C, clocks with an explicit 0 entry
\* included, max(A, B) == max(B, A), max(max(A, B), C) == max(A, max(B, C))
\* and max(A, A) == A, and the time of max(A, B) for every node is the
\* larger of the times of A and B for it.
C19_MaxIsSemilattice ==
    LET A == clocks["A"]
        B == clocks["B"]
        C == clocks["C"]
    IN /\ max(A, B) = max(B, A)
       /\ max(max(A, B), C) = max(A, max(B, C))
       /\ max(A, A) = A
       /\ \A n \in NodeIds :
             clock_get(max(A, B), n) = LargerOf(clock_get(A, n), clock_get(B, n))

\* A stores an explicit 0 for a node B has no entry for, B is ahead of A on
\* the other node, and C is a third clock with entries of its own
C19_Witness ==
    /\ clocks["A"] = [n \in NodeIds |-> IF n = "a" THEN 0 ELSE 2]
    /\ clocks["B"] = [n \in {"b"} |-> 1]
    /\ clocks["C"] = [n \in {"a"} |-> 1]
    /\ max(clocks["B"], clocks["A"]) = clocks["A"]

\* every time of the first clock is at most the time of the second, a
\* missing entry counted as 0
LessOrEqual(x, y) == \A n \in NodeIds : clock_get(x, n) <= clock_get(y, n)

\* C20: with a missing entry counted as 0, compare(A, B) is Before iff A is
\* at most B on every node and below it on some node, After iff that holds
\* of B and A, Equal iff the times are the same on every node, Concurrent
\* otherwise; happened_before excludes concurrent_with and is irreflexive
\* and transitive.
C20_CompareIsThePartialOrder ==
    LET A == clocks["A"]
        B == clocks["B"]
        C == clocks["C"]
        below(x, y) == LessOrEqual(x, y) /\ \E n \in NodeIds : clock_get(x, n) < clock_get(y, n)
        same(x, y) == \A n \in NodeIds : clock_get(x, n) = clock_get(y, n)
    IN /\ compare(A, B) = "Before" <=> below(A, B)
       /\ compare(A, B) = "After" <=> below(B, A)
       /\ compare(A, B) = "Equal" <=> same(A, B)
       /\ compare(A, B) = "Concurrent" <=> ~below(A, B) /\ ~below(B, A) /\ ~same(A, B)
       /\ Cardinality({r \in {"b", "a", "e"} :
             \/ r = "b" /\ below(A, B)
             \/ r = "a" /\ below(B, A)
             \/ r = "e" /\ same(A, B)}) <= 1
       /\ happened_before(A, B) <=> compare(A, B) = "Before"
       /\ concurrent_with(A, B) <=> compare(A, B) = "Concurrent"
       /\ happened_before(A, B) => ~concurrent_with(A, B)
       /\ ~happened_before(A, A)
       /\ (happened_before(A, B) /\ happened_before(B, C)) => happened_before(A, C)

\* A, with an explicit 0 only, is before B, which is before C; B and C
\* store different node ids than A does
C20_Witness ==
    /\ clocks["A"] = [n \in {"b"} |-> 0]
    /\ clocks["B"] = [n \in {"a"} |-> 1]
    /\ clocks["C"] = [n \in NodeIds |-> 1]
    /\ compare(clocks["A"], clocks["B"]) = "Before"
    /\ compare(clocks["B"], clocks["C"]) = "Before"
    /\ compare(clocks["C"], clocks["A"]) = "After"

\* C21: for every clock and node, whatever time the clock has for the node
\* in the u64 range, tick(node) returns with the time of the node raised by
\* exactly 1 and the time of every other node as it was, and the clock as it
\* was happened_before the ticked clock.
C21_TickAdvancesByOne ==
    [][clockLast'.op = "tick" /\ clockLast' # clockLast =>
         LET c == clockLast'.clock
             n == clockLast'.node
         IN /\ clockLast'.res = "Ok"
            /\ clock_get(clocks'[c], n) = clock_get(clocks[c], n) + 1
            /\ \A m \in NodeIds \ {n} : clock_get(clocks'[c], m) = clock_get(clocks[c], m)
            /\ \A d \in ClockNames \ {c} : clocks'[d] = clocks[d]
            /\ happened_before(clocks[c], clocks'[c])]_vars

\* ------------------------------------------------------------------------
\* Claims about the hashes handed to the chunk store
\* ------------------------------------------------------------------------

\* ^[0-9a-f]{64}$ at the length of the model
WellFormed(hash) ==
    /\ Len(hash) = EXPECTED_HASH_LEN
    /\ \A i \in DOMAIN hash : \E k \in DOMAIN HexDigits : hash[i] = HexDigits[k]

\* C22: get, get_verified, get_mmap, exists and delete return InvalidHash
\* and leave every chunk file as it was, for every hash that is not 64
\* lowercase hex characters: a wrong length, a character that is not
\* hexadecimal, or an uppercase hex letter.
C22_MalformedHashIsRejected ==
    [][(/\ hashLast' # hashLast
        /\ hashLast'.op \in {"get", "get_verified", "get_mmap", "exists", "delete"}
        /\ ~WellFormed(hashLast'.hash))
       => hashLast'.res = "InvalidHash" /\ hashFiles' = hashFiles]_vars

\* C28: get_verified(h) returns bytes only when they are the bytes in the
\* file of h and their digest is h; when the file of h holds bytes of
\* another digest it returns HashMismatch with expected = h and actual = the
\* digest of the bytes in the file; get(h) returns the bytes in the file,
\* whatever their digest.
C28_GetVerifiedDetectsCorruption ==
    [][hashLast' # hashLast =>
         LET h == hashLast'.hash
             stored == validate_hash(h) /\ path_exists(h)
         IN /\ (hashLast'.op = "get_verified" /\ hashLast'.res = "Ok") =>
                  /\ stored
                  /\ hashLast'.data = {hashFiles[h]}
                  /\ to_hex(hashFiles[h]) = h
            /\ (hashLast'.op = "get_verified" /\ stored /\ to_hex(hashFiles[h]) # h) =>
                  /\ hashLast'.res = "HashMismatch"
                  /\ hashLast'.actual = {to_hex(hashFiles[h])}
                  /\ hashLast'.data = {}
            /\ (hashLast'.op = "get_verified" /\ stored /\ to_hex(hashFiles[h]) = h) =>
                  hashLast'.res = "Ok"
            /\ (hashLast'.op = "get" /\ stored) =>
                  hashLast'.res = "Ok" /\ hashLast'.data = {hashFiles[h]}
            /\ hashLast'.op \in {"get", "get_verified"} => hashFiles' = hashFiles]_vars

\* the file of the hash of <<1, 2>> holds <<1>>, and get_verified of that
\* hash has returned HashMismatch with the digest of <<1>>
C28_Witness ==
    /\ hashLast.op = "get_verified" /\ hashLast.res = "HashMismatch"
    /\ hashLast.hash = to_hex(<<1, 2>>)
    /\ hashLast.actual = {to_hex(<<1>>)}
    /\ hashFiles[to_hex(<<1, 2>>)] = <<1>>

\* ------------------------------------------------------------------------
\* Claims about the Merkle tree
\* ------------------------------------------------------------------------

\* the trees built so far, each with its blob and config
Built == {oldTree[i] : i \in DOMAIN oldTree} \cup {newTree[i] : i \in DOMAIN newTree}

\* the elements of a sequence of sequences, in order
RECURSIVE Flat(_)
Flat(seqs) == IF seqs = << >> THEN << >> ELSE Head(seqs) \o Flat(Tail(seqs))

\* the hashes of the level below level l of the internal nodes
Below(t, l) ==
    IF l = 1 THEN [i \in DOMAIN t.chunks |-> t.chunks[i].hash]
    ELSE [i \in DOMAIN t.internal_nodes[l - 1] |-> t.internal_nodes[l - 1][i].hash]

\* C23: for every non-empty blob d, chunk_size >= 1 and branching_factor >= 2
\* the leaves of build_tree(d) have the indices 0..k-1 and byte ranges that
\* tile [0, len(d)) without a gap, every leaf but possibly the last has size
\* chunk_size, each leaf hash is the digest of its slice of d, each internal
\* node's hash is the digest of the concatenated hashes of at most
\* branching_factor consecutive nodes of the level below, and the one node
\* of the top level has the hash root_hash; with one leaf root_hash is the
\* hash of that leaf and the height is 1.
C23_TreeShape ==
    \A b \in Built :
        LET t == b.tree
            d == b.data
            k == Len(t.chunks)
            top == Len(t.internal_nodes)
        IN /\ k >= 1
           /\ \A i \in 1..k :
                 LET c == t.chunks[i]
                 IN /\ c.index = i - 1
                    /\ c.byte_range[1] = (IF i = 1 THEN 0 ELSE t.chunks[i - 1].byte_range[2])
                    /\ c.byte_range[1] < c.byte_range[2]
                    /\ c.size = c.byte_range[2] - c.byte_range[1]
                    /\ (i < k => c.size = b.config.chunk_size)
                    /\ c.size <= b.config.chunk_size
                    /\ c.hash = merkle_hash(SubSeq(d, c.byte_range[1] + 1, c.byte_range[2]))
           /\ t.chunks[k].byte_range[2] = Len(d)
           /\ \A l \in 1..top :
                 /\ \A i \in DOMAIN t.internal_nodes[l] :
                       LET n == t.internal_nodes[l][i]
                       IN /\ n.hash = merkle_hash(Flat(n.children))
                          /\ Len(n.children) \in 1..b.config.branching_factor
                 /\ Flat([i \in DOMAIN t.internal_nodes[l] |-> t.internal_nodes[l][i].children])
                       = Below(t, l)
           /\ IF k = 1
              THEN top = 0 /\ t.root_hash = t.chunks[1].hash /\ t.height = 1
              ELSE /\ top >= 1
                   /\ Len(t.internal_nodes[top]) = 1
                   /\ t.internal_nodes[top][1].hash = t.root_hash

\* a tree of three leaves under two levels of internal nodes, the second
\* node of the first level with one child, and a tree whose last leaf is
\* shorter than the chunk size
C23_Witness ==
    /\ oldTree # << >> /\ newTree # << >>
    /\ Len(oldTree[1].tree.chunks) = 3
    /\ oldTree[1].config.branching_factor = 2
    /\ Len(oldTree[1].tree.internal_nodes) = 2
    /\ Len(oldTree[1].tree.internal_nodes[1][2].children) = 1
    /\ oldTree[1].tree.height = 3
    /\ Len(newTree[1].tree.chunks) = 2
    /\ newTree[1].tree.chunks[2].size < newTree[1].config.chunk_size

\* the elements of a sequence
Listed(s) == {s[i] : i \in DOMAIN s}

\* no element twice in a sequence
NoRepeat(s) == \A i, j \in DOMAIN s : s[i] = s[j] => i = j

\* the hashes of the leaves of a tree, read off its chunks
LeafHashSet(t) == {t.chunks[i].hash : i \in DOMAIN t.chunks}

\* C24: for all trees a and b, diff_trees(a, b) has unchanged \cup removed =
\* the leaf hashes of a and unchanged \cup added = the leaf hashes of b, the
\* three lists are pairwise disjoint, and no hash is listed twice.
C24_DiffPartitionsLeaves ==
    merkleLast.op = "diff_trees" =>
        LET d == merkleLast.diff
            a == oldTree[1].tree
            b == newTree[1].tree
        IN /\ Listed(d.unchanged_chunks) \cup Listed(d.removed_chunks) = LeafHashSet(a)
           /\ Listed(d.unchanged_chunks) \cup Listed(d.added_chunks) = LeafHashSet(b)
           /\ Listed(d.unchanged_chunks) \cap Listed(d.removed_chunks) = {}
           /\ Listed(d.unchanged_chunks) \cap Listed(d.added_chunks) = {}
           /\ Listed(d.removed_chunks) \cap Listed(d.added_chunks) = {}
           /\ NoRepeat(d.unchanged_chunks)
           /\ NoRepeat(d.removed_chunks)
           /\ NoRepeat(d.added_chunks)

\* a diff of two trees that share a leaf, where the old tree has a leaf the
\* new one lacks and the new tree a leaf the old one lacks
C24_Witness ==
    /\ merkleLast.op = "diff_trees"
    /\ Len(merkleLast.diff.unchanged_chunks) = 1
    /\ Len(merkleLast.diff.removed_chunks) = 1
    /\ Len(merkleLast.diff.added_chunks) = 1
    /\ Len(oldTree[1].tree.chunks) = 2
    /\ Len(newTree[1].tree.chunks) = 2

\* C30: for every tree t, diff_trees(t, t) has no removed and no added
\* chunk, lists as many unchanged chunks as t has leaves, and has the
\* reuse_ratio 1, also when several leaves of t have the same content.
C30_SelfDiffReusesAll ==
    (merkleLast.op = "diff_trees" /\ oldTree[1].tree = newTree[1].tree) =>
        /\ merkleLast.diff.removed_chunks = << >>
        /\ merkleLast.diff.added_chunks = << >>
        /\ Len(merkleLast.diff.unchanged_chunks) = Len(oldTree[1].tree.chunks)
        /\ merkleLast.diff.reuse_ratio.num = merkleLast.diff.reuse_ratio.den

\* the bytes of the i-th leaf of a tree built from a blob
LeafBytes(b, i) ==
    SubSeq(b.data, b.tree.chunks[i].byte_range[1] + 1, b.tree.chunks[i].byte_range[2])

\* the leaves for which a chunk provider does not hand back their bytes
Faulty(b, f) ==
    {i \in DOMAIN b.tree.chunks : f[b.tree.chunks[i].hash] # {LeafBytes(b, i)}}

\* C27: verify_tree on the tree build_tree(d, cfg) returned, with a chunk
\* provider that hands back the true slice of d for every leaf, returns
\* Ok(true); when the provider hands back other bytes for a leaf it returns
\* IntegrityError with the hash of that leaf as expected and the digest of
\* the bytes handed back as actual, and when it hands back nothing for a leaf
\* it returns ChunkNotFound; of several such leaves the first one decides.
C27_VerifyTreeChecksLeaves ==
    merkleLast.op = "verify_tree" =>
        LET b == oldTree[1]
            f == merkleLast.fetcher
            r == merkleLast.verify
            bad == Faulty(b, f)
        IN IF bad = {} THEN r.res = "Ok(true)"
           ELSE LET i == CHOOSE k \in bad : \A m \in bad : k <= m
                    h == b.tree.chunks[i].hash
                IN IF f[h] = {}
                   THEN r.res = "ChunkNotFound" /\ r.missing = {h}
                   ELSE /\ r.res = "IntegrityError"
                        /\ r.expected = {h}
                        /\ r.actual = {merkle_hash(x) : x \in f[h]}
                        /\ r.actual # r.expected

\* verify_tree has found the true bytes for the first leaf and other bytes
\* for the second, and has returned IntegrityError for the second
C27_Witness ==
    /\ merkleLast.op = "verify_tree"
    /\ merkleLast.res = "IntegrityError"
    /\ Len(oldTree[1].tree.chunks) >= 2
    /\ merkleLast.fetcher[oldTree[1].tree.chunks[1].hash] = {LeafBytes(oldTree[1], 1)}
    /\ merkleLast.verify.expected = {oldTree[1].tree.chunks[2].hash}
    /\ merkleLast.verify.actual = {merkle_hash(<<"x">>)}

\* ------------------------------------------------------------------------
\* Claims about the Parquet codec
\* ------------------------------------------------------------------------

\* x op value, on integers
Satisfies(x, op, value) ==
    \/ op = "Eq" /\ x = value
    \/ op = "Ne" /\ x # value
    \/ op = "Lt" /\ x < value
    \/ op = "Le" /\ x <= value
    \/ op = "Gt" /\ x > value
    \/ op = "Ge" /\ x >= value

\* a statistic the prune rule cannot use for a value: absent, or of another type
Unusable(stat, value) == stat = {} \/ \E s \in stat : s.type # value.type

\* C25: for integer statistics min <= max and every predicate (op, value),
\* can_prune_row_group returns true only if no x with min <= x <= max
\* satisfies x op value, and it returns false whenever a statistic its rule
\* needs is absent or of another type than the value: max for > and >=, min
\* for < and <=, either one for !=, and for = the one its answer rests on.
C25_PruneRuleIsSound ==
    pqLast.op = "can_prune_row_group" =>
        LET f == pqLast.filters[1]
            lo == pqLast.min
            hi == pqLast.max
        IN /\ \A a \in lo, b \in hi :
                 (/\ a.type \in {"Int64", "Int32"} /\ b.type = a.type /\ a.v <= b.v
                  /\ f.value.type = a.type
                  /\ pqLast.pruned)
                 => \A x \in a.v..b.v : ~Satisfies(x, f.op, f.value.v)
           /\ (f.op \in {"Gt", "Ge"} /\ Unusable(hi, f.value)) => ~pqLast.pruned
           /\ (f.op \in {"Lt", "Le"} /\ Unusable(lo, f.value)) => ~pqLast.pruned
           /\ (f.op = "Ne" /\ (Unusable(lo, f.value) \/ Unusable(hi, f.value)))
                 => ~pqLast.pruned
           /\ (f.op = "Eq" /\ pqLast.pruned) =>
                 \/ ~Unusable(lo, f.value) /\ \E a \in lo : f.value.v < a.v
                 \/ ~Unusable(hi, f.value) /\ \E b \in hi : f.value.v > b.v

\* the rule for = has pruned a row group with the statistics 1..2 for the
\* value 0
C25_Witness ==
    /\ pqLast.op = "can_prune_row_group"
    /\ pqLast.pruned
    /\ pqLast.filters = <<PredicateFilter("id", "Eq", Scalar("Int64", 0))>>
    /\ pqLast.min = {Scalar("Int64", 1)}
    /\ pqLast.max = {Scalar("Int64", 2)}

\* the rows of a file in file order
FileRows(file) == concat_batches(file.row_groups)

\* a row satisfies every filter of a list
SatisfiesAll(row, filters) ==
    \A i \in DOMAIN filters : Satisfies(row[filters[i].column], filters[i].op, filters[i].value.v)

\* the rows of decode that satisfy every filter, in file order, restricted
\* to the projected columns
Expected(file, filters, projection) ==
    LET all == FileRows(file)
        hits == SelectSeq(all, LAMBDA row : SatisfiesAll(row, filters))
        names == IF projection = {} THEN {"id", "qty"}
                 ELSE {Columns[i + 1] : i \in UNION projection}
    IN [k \in DOMAIN hits |-> [c \in names |-> hits[k][c]]]

\* filters on columns of the schema, with values of the type of the column
WellTyped(filters) ==
    \A i \in DOMAIN filters :
        filters[i].column \in {"id", "qty"} /\ filters[i].value.type = "Int64"

\* the row groups of a file that some filter of a list prunes on the
\* statistics the writer stored
PrunedGroups(file, filters) ==
    {g \in DOMAIN file.row_groups :
        \E i \in DOMAIN filters :
            LET vals == {file.row_groups[g][k][filters[i].column] :
                            k \in DOMAIN file.row_groups[g]}
            IN /\ file.write_statistics
               /\ filter_can_prune_row_group(filters[i],
                     {Scalar("Int64", CHOOSE v \in vals : \A w \in vals : v <= w)},
                     {Scalar("Int64", CHOOSE v \in vals : \A w \in vals : v >= w)})}

C29_UpdateHeadFrame ==
    [][\A b \in MergeNames, t \in Tables, v \in 1..MaxHead :
         (brLast'.op = "update_head" /\ brLast'.detail = b /\ BranchUpdateHead(b, t, v)) =>
            IF branch_exists(b)
            THEN LET before == branchFiles[branch_path(b)]
                     after == branchFiles'[branch_path(b)]
                 IN /\ brLast'.res = "Ok"
                    /\ DOMAIN after.head = DOMAIN before.head \cup {t}
                    /\ after.head[t] = v
                    /\ \A u \in DOMAIN before.head \ {t} : after.head[u] = before.head[u]
                    /\ after.name = before.name
                    /\ after.parent_branch = before.parent_branch
                    /\ OtherBranchesUnchanged(b)
                    /\ defaultFile' = defaultFile
            ELSE /\ brLast'.res = "BranchNotFound"
                 /\ branchFiles' = branchFiles
                 /\ defaultFile' = defaultFile]_vars

\* update_head has returned Ok on dev, which has users at 1 below the 2 of
\* the branch it was made from, and orders at 2 as before
C29_Witness ==
    /\ brLast = [op |-> "update_head", res |-> "Ok", detail |-> <<"d", "e", "v">>]
    /\ get(<<"d", "e", "v">>).parent_branch = DEFAULT_BRANCH
    /\ get(<<"d", "e", "v">>).head = [t \in Tables |-> IF t = "users" THEN 1 ELSE 2]
    /\ get(DEFAULT_BRANCH).head = [t \in Tables |-> 2]
    /\ ~branch_exists(<<"a", "/", "b">>)

\* ------------------------------------------------------------------------
\* Claims about verify_tree on trees changed after they were built
\* ------------------------------------------------------------------------

\* the checks of verify_tree that come before the comparison with the root:
\* no leaf and no internal node was found at fault
ReachedRootCheck(tree, get_chunk_data) ==
    /\ verify_chunks(tree.chunks, 1, get_chunk_data) = {}
    /\ verify_nodes(all_nodes(tree.internal_nodes), 1) = {}

\* the root recomputed from the tree: the one hash of the top level
RootDiffers(tree) == top_level(tree) # <<tree.root_hash>>

\* C31: verify_tree never returns Ok(false): whenever the root recomputed
\* from the tree differs from tree.root_hash, for a tree of one chunk as for
\* a larger tree, the result is an error (IntegrityError or TreeCorruption).
C31_VerifyTreeNeverOkFalse ==
    merkleLast.op = "verify_tree" =>
        /\ merkleLast.res # "Ok(false)"
        /\ (ReachedRootCheck(oldTree[1].tree, merkleLast.fetcher)
              /\ RootDiffers(oldTree[1].tree))
             => merkleLast.res \in {"IntegrityError", "TreeCorruption"}

\* the children lists of the nodes of one level, one after the other
RECURSIVE children_in_order(_)
children_in_order(nodes) ==
    IF nodes = << >> THEN << >>
    ELSE Head(nodes).children \o children_in_order(Tail(nodes))

\* the hashes one level below a level of internal nodes: the leaf hashes for
\* level 1
level_below(tree, level) ==
    IF level = 1 THEN hashes_of(tree.chunks)
    ELSE hashes_of(tree.internal_nodes[level - 1])

\* the children of the nodes of every level are, in order, the hashes of the
\* nodes one level below
Linked(tree) ==
    \A level \in DOMAIN tree.internal_nodes :
        children_in_order(tree.internal_nodes[level]) = level_below(tree, level)

\* C37: verify_tree returns Ok(true) only for a tree in which the children
\* of every internal node are exactly the hashes of the corresponding
\* consecutive nodes one level below (the leaf hashes for level 1): a tree
\* whose leaves all verify but whose level-1 nodes list children that are
\* not those leaf hashes is rejected.
C37_VerifyTreeChecksLinks ==
    (merkleLast.op = "verify_tree" /\ merkleLast.res = "Ok(true)") =>
        Linked(oldTree[1].tree)

\* ------------------------------------------------------------------------
\* Claims about the termination of build_tree
\* ------------------------------------------------------------------------

\* build_tree has returned a tree or an error value
BuildReturned ==
    build.pc = "returned" /\ build.res \in {"Ok", "EmptyData", "InvalidChunkSize"}

\* the tree handed back pass by pass is the one build_tree computes at once
BuildAgrees ==
    (build.pc = "returned" /\ build.config.branching_factor >= 2) =>
        /\ build.res = build_tree(build.data, build.config).res
        /\ build.tree = build_tree(build.data, build.config).tree

\* C38: build_tree terminates for every non-empty input, every chunk_size
\* >= 1 and every branching_factor value (0, 1, 2 and larger), returning
\* either a tree or an error value.
C38_BuildTreeTerminates ==
    (build.pc = "loop") ~> BuildReturned

\* ------------------------------------------------------------------------
\* Claims about messages between vector clocks
\* ------------------------------------------------------------------------

\* what the receiver's clock has to be after a message: after the sender's
\* clock, and nowhere behind what it was
ReceivedAfter(S, R, after) ==
    /\ happened_before(S, after)
    /\ \A n \in NodeIds : clock_get(after, n) >= clock_get(R, n)

\* C32: for all clocks S and R and every node r: after R.merge(S) followed
\* by R.tick(r), S happened_before R, and R's time for every node is at
\* least what it was before the merge.
C32_ReceiveAdvances ==
    [][\A c, s \in TickNames, r \in NodeIds :
         (ClockReceive(c, s, r) /\ clockLast'.res = "Ok") =>
            ReceivedAfter(clocks[s], clocks[c], clocks'[c])]_vars

\* C39: two vector clocks are == exactly when compare returns Equal for
\* them: a clock that stores an explicit 0 for a node (through set or
\* with_node) is == to the same clock without that entry, and is_empty agrees
\* for both.
C39_EqIsCompareEqual ==
    \A c, d \in ClockNames :
        /\ clock_eq(clocks[c], clocks[d]) <=> (compare(clocks[c], clocks[d]) = "Equal")
        /\ compare(clocks[c], clocks[d]) = "Equal"
             => (is_empty(clocks[c]) <=> is_empty(clocks[d]))

\* ------------------------------------------------------------------------
\* Claims about a consumer of the changelog
\* ------------------------------------------------------------------------

\* the number of times the consumer has received the entry of a transaction
TimesReceived(tx) == Cardinality({i \in DOMAIN received : received[i] = tx})

\* C33: a consumer that repeatedly calls get_changelog with since_tx_id set
\* to the highest tx_id it has received so far eventually receives the entry
\* of every committed transaction, each exactly once, for every order in
\* which transactions begin and commit (a transaction with a lower tx_id may
\* commit after one with a higher tx_id).
C33_ConsumerReceivesEveryCommit ==
    \A tx \in TxIds :
        /\ (tx \in DOMAIN txs /\ txs[tx].status = "Committed") ~> (TimesReceived(tx) = 1)
        /\ [](TimesReceived(tx) <= 1)

\* ------------------------------------------------------------------------
\* Claims about update_head called from several threads
\* ------------------------------------------------------------------------

\* two update_head calls on one branch that exists, for two different
\* tables, have both returned
BothUpdated(s, t) ==
    /\ s # t
    /\ updPc[s] = "done" /\ updPc[t] = "done"
    /\ updLoc[s].branch_name = updLoc[t].branch_name
    /\ branch_exists(updLoc[s].branch_name)
    /\ updLoc[s].table_name # updLoc[t].table_name

\* the head of the branch of a call that has returned holds its version
HeadHolds(t) ==
    LET head_now == get(updLoc[t].branch_name).head
    IN /\ updLoc[t].table_name \in DOMAIN head_now
       /\ head_now[updLoc[t].table_name] = updLoc[t].version

\* C34: when two threads call update_head on the same branch for two
\* different tables at the same time, both calls return Ok and the branch
\* head afterwards holds both new versions: no update is lost and neither
\* call fails because of the other.
C34_ConcurrentUpdatesBothLand ==
    \A s, t \in Threads :
        BothUpdated(s, t) =>
            /\ updLoc[s].res = "Ok" /\ updLoc[t].res = "Ok"
            /\ HeadHolds(s) /\ HeadHolds(t)

\* ------------------------------------------------------------------------
\* Claims about put beside cleanup_orphaned_temp_files
\* ------------------------------------------------------------------------

\* thread t is in a put that has created its temp file and not yet renamed it
WriteInFlight(t) == pc[t] \in {"put_write", "put_rename"} /\ loc[t].temp \in DOMAIN temps

\* C35: a put that runs concurrently with cleanup_orphaned_temp_files still
\* returns Ok and leaves its chunk stored: cleanup never deletes the temp
\* file of a write that is still in flight, and it never removes a file at a
\* final chunk path.
C35_PutSurvivesCleanup ==
    [][/\ (last'.op = "put" /\ (\E t \in Threads : pc[t] # "idle" /\ pc'[t] = "idle"
                                                  /\ loc[t].op = "put"))
            => (last'.res = "Ok" /\ last'.hash \in DOMAIN chunks'
                /\ chunks'[last'.hash] = last'.data)
       /\ \A t \in Threads :
             (WriteInFlight(t) /\ pc'[t] = pc[t] /\ loc'[t] = loc[t])
                => loc[t].temp \in DOMAIN temps'
       /\ DOMAIN chunks \subseteq DOMAIN chunks']_vars

\* ------------------------------------------------------------------------
\* Claims about branch names and the default branch
\* ------------------------------------------------------------------------

\* the call that has just returned is a call of op with the result res
Returned(op, res) == brLast' # brLast /\ brLast'.op = op /\ brLast'.res = res

\* C36: after any sequence of create and delete calls, list() returns
\* exactly main plus the names given to successful create calls and not
\* deleted since, and two different valid branch names never share a branch
\* file: creating a branch named a/b never makes create, get or delete of
\* a__b see an existing branch, nor the reverse.
C36_ListIsWhatWasCreated ==
    [][/\ Returned("create", "Ok") => list' = list \cup {brLast'.detail}
       /\ Returned("delete", "Ok") =>
             (brLast'.detail \in list /\ list' = list \ {brLast'.detail})
       /\ Returned("create", "BranchAlreadyExists") => brLast'.detail \in list
       /\ Returned("delete", "BranchNotFound") => brLast'.detail \notin list]_vars

\* C40: after BranchManager::new and any sequence of create, delete and
\* set_default calls, get_default returns the name of a branch that exists;
\* set_default on a branch that does not exist returns BranchNotFound and
\* keeps the previous default, and delete of the current default is refused.
C40_DefaultBranchExists ==
    /\ [](get_default # NoName /\ get_default \in list /\ branch_exists(get_default))
    /\ [][/\ Returned("set_default", "Ok") => defaultFile' \in list
          /\ Returned("set_default", "BranchNotFound") => defaultFile' = defaultFile
          /\ (brLast'.op = "delete" /\ brLast' # brLast /\ brLast'.detail = get_default)
               => (brLast'.res = "CannotDeleteDefault" /\ branchFiles' = branchFiles)]_vars

====
